---- MODULE Spec2Model ----
(***************************************************************************)
(* Verification model of the timeblock scheduling engine:                  *)
(*   src/src/lib/google-calendar.ts   findFreeSlots                        *)
(*   src/src/lib/scheduling.ts        findOptimalSlot, calculatePriority   *)
(*   src/src/lib/timezone.ts          zone conversions                     *)
(*   src/src/app/api/tasks/route.ts   POST (task creation)                 *)
(*   src/src/app/api/tasks/[id]/route.ts  PATCH, rescheduleRemainingTasks  *)
(*                                                                         *)
(* Instants are whole minutes since 00:00 UTC of day 0.  An optional value *)
(* (a nullable column, a FreeSlot | null) is a sequence of length 0 or 1.  *)
(***************************************************************************)
EXTENDS Integers, Sequences, FiniteSets, TLC

VARIABLES
    fArgs,      \* findFreeSlots: the arguments of the call under study
    fResult,    \* findFreeSlots: <<>> before the call, <<slots>> after it
    wArgs,      \* findOptimalSlot: the arguments of the call under study
    wDay,       \* findOptimalSlot: dayOffset of the loop
    wExamined,  \* findOptimalSlot: day windows handed to findFreeSlots so far
    wPc,        \* findOptimalSlot: "loop" or "done"
    wResult,    \* findOptimalSlot: the returned FreeSlot | null
    pArgs,      \* calculatePriority: the arguments of the call under study
    pResult,    \* calculatePriority: <<>> before the call, <<score>> after it
    now,        \* the clock (Date.now())
    user,       \* the user row: [linked (google_access_token is set), zone (the zone in memory)]
    tasks,      \* the tasks table, in insertion order
    calendar,   \* the events of the user's primary calendar
    nreq,       \* requests handled so far
    nfault,     \* requests so far during which a calendar or database call failed
    last,       \* what the last request did
    inflight    \* the POST requests in progress: each one's position and what it holds

finderVars == <<fArgs, fResult>>
walkerVars == <<wArgs, wDay, wExamined, wPc, wResult>>
priorityVars == <<pArgs, pResult>>
sysVars == <<now, user, tasks, calendar, nreq, nfault, last, inflight>>
vars == <<fArgs, fResult, wArgs, wDay, wExamined, wPc, wResult, pArgs, pResult,
          now, user, tasks, calendar, nreq, nfault, last, inflight>>

None == <<>>
Some(x) == <<x>>
IsSome(o) == o # <<>>
Val(o) == o[1]

Max(a, b) == IF a >= b THEN a ELSE b
Min(a, b) == IF a <= b THEN a ELSE b
Abs(a) == IF a >= 0 THEN a ELSE 0 - a

MinutesPerHour == 60
MinutesPerDay == 1440

\* Half-open intervals [start, end) intersect.
Overlaps(a, b) == a.start < b.end /\ b.start < a.end

(***************************************************************************)
(* timezone.ts.  A zone is its UTC offset in minutes (a zone without a     *)
(* daylight-saving change inside the horizon).                             *)
(***************************************************************************)
getTimeZoneOffsetMinutes(date, timeZone) == timeZone

getZonedDateParts(date, timeZone) ==
    LET local == date + timeZone
    IN  [day    |-> local \div MinutesPerDay,
         hour   |-> (local % MinutesPerDay) \div MinutesPerHour,
         minute |-> local % MinutesPerHour]

zonedTimeToUtc(parts, timeZone) ==
    LET utc == parts.day * MinutesPerDay + parts.hour * MinutesPerHour + parts.minute
    IN  utc - getTimeZoneOffsetMinutes(utc, timeZone)

addDaysInTimeZone(date, timeZone, days) ==
    LET zonedParts == getZonedDateParts(date, timeZone)
        base == zonedTimeToUtc([zonedParts EXCEPT !.hour = 12, !.minute = 0], timeZone)
    IN  base + days * MinutesPerDay

getStartOfDayInTimeZone(date, timeZone) ==
    zonedTimeToUtc([getZonedDateParts(date, timeZone) EXCEPT !.hour = 0, !.minute = 0],
                   timeZone)

\* 23:59:59 local; at whole minutes an instant is <= it iff it is <= 23:59.
getEndOfDayInTimeZone(date, timeZone) ==
    zonedTimeToUtc([getZonedDateParts(date, timeZone) EXCEPT !.hour = 23, !.minute = 59],
                   timeZone)

(***************************************************************************)
(* google-calendar.ts                                                      *)
(***************************************************************************)
\* A calendar event: [id, start, end, timed]; ids are numbers; timed = FALSE is
\* an all-day event, which carries a date and no dateTime.

RECURSIVE InsertByStart(_, _)
\* Insert x behind every element whose start is <= x.start (stable order).
InsertByStart(sorted, x) ==
    IF sorted = <<>> THEN <<x>>
    ELSE IF Head(sorted).start <= x.start
         THEN <<Head(sorted)>> \o InsertByStart(Tail(sorted), x)
         ELSE <<x>> \o sorted

\* Mutant of SortByStart: the merged intervals are walked unsorted.
SortByStart_Unsorted(s) == s

RECURSIVE SortByStart(_)
SortByStart(s) ==
    IF s = <<>> THEN <<>>
    ELSE InsertByStart(SortByStart(SubSeq(s, 1, Len(s) - 1)), s[Len(s)])

RECURSIVE EventsInOrder(_)
\* The events of a set as a list ordered by start time (orderBy: startTime).
EventsInOrder(evs) ==
    IF evs = {} THEN <<>>
    ELSE LET e == CHOOSE x \in evs : \A y \in evs : x.id >= y.id
         IN  InsertByStart(EventsInOrder(evs \ {e}), e)

\* calendar.events.list with timeMin/timeMax and singleEvents: the events that
\* end after timeMin and start before timeMax.
listEvents(cal, timeMin, timeMax) ==
    EventsInOrder({e \in cal : e.end > timeMin /\ e.start < timeMax})

\* Lines 143-158: the intervals of the timed, not ignored events, then the
\* passed-in busy slots, sorted by start.
BusyIntervals(events, ignoreEventIds, busySlots) ==
    LET kept == SelectSeq(events, LAMBDA e : e.id \notin ignoreEventIds /\ e.timed)
        fromEvents == [i \in 1..Len(kept) |-> [start |-> kept[i].start, end |-> kept[i].end]]
    IN  fromEvents \o busySlots

RECURSIVE FreeSlotLoop(_, _, _, _, _)
\* Lines 163-185: the cursor walk over the sorted intervals from index i on.
FreeSlotLoop(sortedIntervals, i, currentTime, endTime, durationMinutes) ==
    IF i > Len(sortedIntervals)
    THEN IF endTime - currentTime >= durationMinutes
         THEN <<[start |-> currentTime, end |-> currentTime + durationMinutes]>>
         ELSE <<>>
    ELSE LET interval == sortedIntervals[i]
         IN  IF interval.end <= currentTime
             THEN FreeSlotLoop(sortedIntervals, i + 1, currentTime, endTime, durationMinutes)
             ELSE (IF interval.start - currentTime >= durationMinutes
                   THEN <<[start |-> currentTime, end |-> currentTime + durationMinutes]>>
                   ELSE <<>>)
                  \o FreeSlotLoop(sortedIntervals, i + 1,
                                  IF interval.end > currentTime THEN interval.end
                                  ELSE currentTime,
                                  endTime, durationMinutes)

findFreeSlots(cal, startTime, endTime, durationMinutes, ignoreEventIds, busySlots) ==
    LET events == listEvents(cal, startTime, endTime)
        sortedIntervals == SortByStart(BusyIntervals(events, ignoreEventIds, busySlots))
    IN  FreeSlotLoop(sortedIntervals, 1, startTime, endTime, durationMinutes)

(***************************************************************************)
(* scheduling.ts.  A task is a record with optional scheduled_start and    *)
(* scheduled_end; an energy map is the list of its entries in key order,   *)
(* each [startHour, endHour, level] (only the hours of a key are read).    *)
(***************************************************************************)
MaxDaysAhead == 7
DefaultBufferMinutes == 5
DefaultWorkingHours == [start |-> 9, end |-> 18, maxExtension |-> 3]

RECURSIVE EnergyLookup(_, _, _)
EnergyLookup(energyMap, i, hour) ==
    IF i > Len(energyMap) THEN "medium"
    ELSE IF hour >= energyMap[i].startHour /\ hour < energyMap[i].endHour
         THEN energyMap[i].level
         ELSE EnergyLookup(energyMap, i + 1, hour)

\* Mutant of getEnergyForTimeSlot: the hour is read in UTC, not in the user's zone.
getEnergyForTimeSlot_UtcHour(slot, energyMap, timeZone) ==
    EnergyLookup(energyMap, 1, getZonedDateParts(slot.start, 0).hour)

\* scheduling.ts lines 22-41.
getEnergyForTimeSlot(slot, energyMap, timeZone) ==
    EnergyLookup(energyMap, 1, getZonedDateParts(slot.start, timeZone).hour)

isAdjacentToExistingTask(slot, existingTasks, bufferMinutes) ==
    LET bufferMs == Max(0, bufferMinutes)
    IN  \E i \in 1..Len(existingTasks) :
            /\ IsSome(existingTasks[i].scheduled_start)
            /\ IsSome(existingTasks[i].scheduled_end)
            /\ \/ Abs(slot.start - Val(existingTasks[i].scheduled_end)) < bufferMs
               \/ Abs(slot.end - Val(existingTasks[i].scheduled_start)) < bufferMs

\* Mutant of buildBusySlots: the task windows are not padded by the buffer.
buildBusySlots_Unpadded(taskList, bufferMinutes) ==
    LET scheduled == SelectSeq(taskList, LAMBDA t : IsSome(t.scheduled_start)
                                                    /\ IsSome(t.scheduled_end))
    IN  [i \in 1..Len(scheduled) |->
            [start |-> Val(scheduled[i].scheduled_start),
             end   |-> Val(scheduled[i].scheduled_end)]]

\* scheduling.ts lines 247-259: the windows of the scheduled tasks, padded by
\* the buffer on both ends.
buildBusySlots(taskList, bufferMinutes) ==
    LET bufferMs == Max(0, bufferMinutes)
        scheduled == SelectSeq(taskList, LAMBDA t : IsSome(t.scheduled_start)
                                                    /\ IsSome(t.scheduled_end))
    IN  [i \in 1..Len(scheduled) |->
            [start |-> Val(scheduled[i].scheduled_start) - bufferMs,
             end   |-> Val(scheduled[i].scheduled_end) + bufferMs]]

\* Lines 146-148.
combinedBusySlots(a) == a.busySlots \o buildBusySlots(a.existingTasks, a.bufferMinutes)

\* Lines 151-175: the working-hours window of day dayOffset.
DayWindow(a, dayOffset) ==
    LET targetDate == addDaysInTimeZone(a.now, a.timeZone, dayOffset)
        targetParts == getZonedDateParts(targetDate, a.timeZone)
        startTime == zonedTimeToUtc([targetParts EXCEPT !.hour = a.workingHours.start,
                                                        !.minute = 0], a.timeZone)
        endTime == zonedTimeToUtc([targetParts EXCEPT !.hour = a.workingHours.end,
                                                      !.minute = 0], a.timeZone)
    IN  [startTime |-> IF dayOffset = 0 /\ a.now > startTime
                       THEN a.now + a.bufferMinutes ELSE startTime,
         endTime |-> endTime]

\* Lines 188-189.
ExtensionWindow(a, dayOffset) ==
    LET endTime == DayWindow(a, dayOffset).endTime
    IN  [startTime |-> endTime,
         endTime |-> endTime + a.workingHours.maxExtension * MinutesPerHour]

\* Mutant of DaySkipped: an empty working-hours window does not skip the day.
DaySkipped_Never(a, dayOffset) == FALSE

\* Line 177.
DaySkipped(a, dayOffset) ==
    LET w == DayWindow(a, dayOffset)
    IN  w.startTime >= w.endTime

\* Lines 181-184.
PrimarySlots(a, dayOffset) ==
    LET w == DayWindow(a, dayOffset)
    IN  findFreeSlots(a.cal, w.startTime, w.endTime, a.duration, a.ignoreEventIds,
                      combinedBusySlots(a))

\* Lines 190-193.
ExtendedSlots(a, dayOffset) ==
    LET w == ExtensionWindow(a, dayOffset)
    IN  findFreeSlots(a.cal, w.startTime, w.endTime, a.duration, a.ignoreEventIds,
                      combinedBusySlots(a))

\* Lines 186-194: the extension window is searched when the primary list is empty.
PrimaryOrExtended(a, dayOffset, primary) ==
    IF primary # <<>> THEN primary ELSE ExtendedSlots(a, dayOffset)

availableSlots(a, dayOffset) == PrimaryOrExtended(a, dayOffset, PrimarySlots(a, dayOffset))

\* Lines 200-220, in sixtieths of a point: the recency term 10 - hoursFromNow
\* is (600 - minutesFromNow) / 60.
SlotScore(a, slot) ==
    LET slotEnergy == getEnergyForTimeSlot(slot, a.energyMap, a.timeZone)
        slotHour == getZonedDateParts(slot.start, a.timeZone).hour
        minutesFromNow == slot.start - a.now
    IN  (IF slotEnergy = a.energyRequirement THEN 10 * MinutesPerHour
         ELSE IF slotEnergy = "high" /\ a.energyRequirement = "medium"
              THEN 5 * MinutesPerHour ELSE 0)
        + (IF a.priority >= 4 /\ slotHour < 12 THEN 5 * MinutesPerHour ELSE 0)
        + (IF isAdjacentToExistingTask(slot, a.existingTasks, a.bufferMinutes)
           THEN 3 * MinutesPerHour ELSE 0)
        + (IF a.priority >= 4 THEN Max(0, 10 * MinutesPerHour - minutesFromNow) ELSE 0)

scoredSlots(a, slots) ==
    [i \in 1..Len(slots) |-> [slot |-> slots[i], score |-> SlotScore(a, slots[i])]]

RECURSIVE InsertByScore_Unstable(_, _)
\* Mutant of InsertByScore: x goes in front of the elements of equal score.
InsertByScore_Unstable(sorted, x) ==
    IF sorted = <<>> THEN <<x>>
    ELSE IF Head(sorted).score > x.score
         THEN <<Head(sorted)>> \o InsertByScore_Unstable(Tail(sorted), x)
         ELSE <<x>> \o sorted

RECURSIVE InsertByScore(_, _)
\* Insert x behind every element whose score is >= x.score (stable, descending).
InsertByScore(sorted, x) ==
    IF sorted = <<>> THEN <<x>>
    ELSE IF Head(sorted).score >= x.score
         THEN <<Head(sorted)>> \o InsertByScore(Tail(sorted), x)
         ELSE <<x>> \o sorted

RECURSIVE SortByScore(_)
\* Line 222: scoredSlots.sort((a, b) => b.score - a.score), a stable sort.
SortByScore(s) ==
    IF s = <<>> THEN <<>>
    ELSE InsertByScore(SortByScore(SubSeq(s, 1, Len(s) - 1)), s[Len(s)])

\* Lines 222-223.
BestSlot(a, slots) == SortByScore(scoredSlots(a, slots))[1].slot

\* Mutant of LoopContinues: the loop runs one day too far.
LoopContinues_OneMore(dayOffset) == dayOffset <= MaxDaysAhead + 1

\* Line 150: dayOffset <= maxDaysAhead.
LoopContinues(dayOffset) == dayOffset <= MaxDaysAhead

RECURSIVE findOptimalSlotFrom(_, _)
\* Lines 196-225: a day with candidates returns its best one; a day without
\* any hands over to the next day.
DayResult(a, dayOffset, slots) ==
    IF slots = <<>> THEN findOptimalSlotFrom(a, dayOffset + 1)
    ELSE Some(BestSlot(a, slots))

\* Lines 150-226: the loop from dayOffset on.
findOptimalSlotFrom(a, dayOffset) ==
    IF ~LoopContinues(dayOffset) THEN None
    ELSE IF DaySkipped(a, dayOffset) THEN findOptimalSlotFrom(a, dayOffset + 1)
    ELSE DayResult(a, dayOffset, availableSlots(a, dayOffset))

findOptimalSlot(a) == findOptimalSlotFrom(a, 0)

\* Mutant of DeadlineScore: the thresholds are exclusive.
DeadlineScore_Exclusive(deadline, clock) ==
    LET minutesUntilDeadline == Val(deadline) - clock
    IN  IF minutesUntilDeadline < 4 * MinutesPerHour THEN 5
        ELSE IF minutesUntilDeadline < 24 * MinutesPerHour THEN 4
        ELSE IF minutesUntilDeadline < 48 * MinutesPerHour THEN 3
        ELSE IF minutesUntilDeadline < 168 * MinutesPerHour THEN 2
        ELSE 1

\* Lines 80-89: the score a deadline gives (hours until it, in minutes).
DeadlineScore(deadline, clock) ==
    LET minutesUntilDeadline == Val(deadline) - clock
    IN  IF minutesUntilDeadline <= 4 * MinutesPerHour THEN 5
        ELSE IF minutesUntilDeadline <= 24 * MinutesPerHour THEN 4
        ELSE IF minutesUntilDeadline <= 48 * MinutesPerHour THEN 3
        ELSE IF minutesUntilDeadline <= 168 * MinutesPerHour THEN 2
        ELSE 1

\* Lines 92-93.
\* Mutant of BoostApplies: every category is boosted.
BoostApplies_Always(taskType, existingTasks) == TRUE

\* Lines 92-95.
BoostApplies(taskType, existingTasks) ==
    /\ \A i \in 1..Len(existingTasks) : existingTasks[i].task_category # taskType
    /\ taskType = "client_work"

\* Mutant of calculatePriority: the boost and the result are not clamped.
calculatePriority_Unclamped(deadline, taskType, existingTasks, clock) ==
    LET score == IF IsSome(deadline) THEN DeadlineScore(deadline, clock) ELSE 3
    IN  IF BoostApplies(taskType, existingTasks) THEN score + 1 ELSE score

\* Lines 68-98; clock is Date.now().
calculatePriority(deadline, taskType, existingTasks, clock) ==
    LET score == IF IsSome(deadline) THEN DeadlineScore(deadline, clock) ELSE 3
        boosted == IF BoostApplies(taskType, existingTasks)
                   THEN Min(5, score + 1) ELSE score
    IN  Max(1, Min(5, boosted))

(***************************************************************************)
(* The request handlers.  A task row is                                    *)
(*   [id, estimated_duration_minutes, actual_duration_minutes, priority,   *)
(*    deadline, scheduled_start, scheduled_end, status,                    *)
(*    google_calendar_event_id, task_category, energy_requirement];        *)
(* ids are positions in the table (no row is deleted here).  The user's    *)
(* memory holds the zone and nothing else, so findOptimalSlot runs with    *)
(* the default working hours and buffer and an empty energy map.           *)
(*                                                                         *)
(* A request meets at most one fault: fault = [kind, at], where kind is    *)
(* "none", "calendar_read" (listEvents throws), "calendar_write"           *)
(* (createEvent / updateEvent / deleteEvent throws) or "db_write" (the     *)
(* insert or update returns an error), and at is the loop iteration of the *)
(* request it hits.                                                        *)
(***************************************************************************)
ServerZone == 0

Hits(fault, kind, at) == fault.kind = kind /\ fault.at = at

\* Mutant of PriorityCheck: the table accepts every priority.
PriorityCheck_Absent(priority) == TRUE

\* tasks.priority CHECK (priority >= 1 AND priority <= 5).
PriorityCheck(priority) == priority >= 1 /\ priority <= 5

FreshEventId(ts, cal) ==
    LET used == { e.id : e \in cal }
                \cup { Val(ts[i].google_calendar_event_id) :
                         i \in { j \in 1..Len(ts) : IsSome(ts[j].google_calendar_event_id) } }
    IN  IF used = {} THEN 1 ELSE 1 + (CHOOSE m \in used : \A x \in used : x <= m)

\* The arguments findOptimalSlot works with when a handler calls it.
SlotSearch(clock, zone, cal, duration, priority, energy, existingTasks, ignoreEventIds, busySlots) ==
    [now |-> clock, duration |-> duration, priority |-> priority,
     energyRequirement |-> energy, timeZone |-> zone,
     bufferMinutes |-> DefaultBufferMinutes, workingHours |-> DefaultWorkingHours,
     energyMap |-> <<>>, cal |-> cal, ignoreEventIds |-> ignoreEventIds,
     existingTasks |-> existingTasks, busySlots |-> busySlots]

\* updateEvent: events.get of a missing event throws; otherwise the given
\* ends of the event are replaced.
updateEvent(cal, eventId, start, end) ==
    { IF e.id = eventId
      THEN [e EXCEPT !.start = IF IsSome(start) THEN Val(start) ELSE @,
                     !.end = IF IsSome(end) THEN Val(end) ELSE @]
      ELSE e : e \in cal }

deleteEvent(cal, eventId) == { e \in cal : e.id # eventId }

(***************************************************************************)
(* POST /api/tasks                                                         *)
(***************************************************************************)
\* Mutant of PostExistingTasks: no existing task is loaded.
PostExistingTasks_None(ts, clock, zone) == <<>>

\* route.ts lines 131-142: the scheduled tasks whose start lies between the
\* start of today and the end of the day seven days from now.
PostExistingTasks(ts, clock, zone) ==
    SelectSeq(ts, LAMBDA t :
        /\ t.status = "scheduled"
        /\ IsSome(t.scheduled_start)
        /\ Val(t.scheduled_start) >= getStartOfDayInTimeZone(clock, zone)
        /\ Val(t.scheduled_start)
             <= getEndOfDayInTimeZone(clock + 7 * MinutesPerDay, zone))

\* Mutant of PostSearchTasks: the tasks planned earlier in the request are left out.
PostSearchTasks_ExistingOnly(existingTasks, plannedTasks) == existingTasks

\* route.ts line 220.
PostSearchTasks(existingTasks, plannedTasks) == existingTasks \o plannedTasks

\* route.ts lines 161, 165-169: the estimate is clamped to 15..480 minutes and
\* a deadline more than a minute in the past is dropped.
PostEstimate(in) == Max(15, Min(480, in.estimate))
PostDeadline(in, clock) ==
    IF IsSome(in.deadline) /\ Val(in.deadline) < clock - 1 THEN None ELSE in.deadline

\* Lines 171-200: the heuristic priority, replaced by the AI assessment when
\* that call succeeds.
PostPriority(in, c) ==
    IF IsSome(in.aiPriority) THEN Val(in.aiPriority)
    ELSE calculatePriority(PostDeadline(in, c.clock), in.category, c.existingTasks, c.clock)

\* Mutant of PostNotificationType: every task is announced as scheduled.
PostNotificationType_AlwaysScheduled(slot) == "task_blocked"

\* route.ts line 293.
PostNotificationType(slot) == IF IsSome(slot) THEN "task_blocked" ELSE "conflict_detected"

\* Lines 242-302: the calendar event, the row and the notification of input i,
\* once its slot is known.
PostInsert(st, in, i, c, priority, slot) ==
    LET created == IsSome(slot) /\ ~Hits(c.fault, "calendar_write", i)
        googleEventId == IF created THEN Some(FreshEventId(st.tasks, st.calendar)) ELSE None
        calendar1 == IF created
                     THEN st.calendar \cup {[id |-> Val(googleEventId), timed |-> TRUE,
                                             start |-> Val(slot).start, end |-> Val(slot).end]}
                     ELSE st.calendar
        task == [id |-> Len(st.tasks) + 1,
                 estimated_duration_minutes |-> PostEstimate(in),
                 actual_duration_minutes |-> None,
                 priority |-> priority,
                 deadline |-> PostDeadline(in, c.clock),
                 scheduled_start |-> IF IsSome(slot) THEN Some(Val(slot).start) ELSE None,
                 scheduled_end |-> IF IsSome(slot) THEN Some(Val(slot).end) ELSE None,
                 status |-> "scheduled",
                 google_calendar_event_id |-> googleEventId,
                 task_category |-> in.category,
                 energy_requirement |-> in.energy]
    IN  IF Hits(c.fault, "db_write", i) \/ ~PriorityCheck(priority)
        THEN [st EXCEPT !.calendar = calendar1, !.status = 500]
        ELSE [st EXCEPT
                !.tasks = Append(@, task),
                !.calendar = calendar1,
                !.plannedTasks = Append(@, task),
                !.createdTasks = Append(@, task.id),
                !.notifications = Append(@,
                    [type |-> PostNotificationType(slot), related_task_id |-> task.id])]

\* Lines 203-240: the slot search of input i, made only for a linked user.
PostPlace(st, in, i, c, priority) ==
    IF c.linked /\ Hits(c.fault, "calendar_read", i)
    THEN [st EXCEPT !.status = 500]
    ELSE PostInsert(st, in, i, c, priority,
             IF c.linked
             THEN findOptimalSlot(SlotSearch(c.clock, c.zone, st.calendar,
                      PostEstimate(in), priority, in.energy,
                      PostSearchTasks(c.existingTasks, st.plannedTasks), {}, <<>>))
             ELSE None)

RECURSIVE PostLoop(_, _, _, _)
\* route.ts lines 160-314: the loop over the inputs from index i on.  st is
\* [tasks, calendar, plannedTasks, createdTasks, notifications, status]; an
\* error ends the request with status 500.
PostLoop(st, inputs, i, c) ==
    IF st.status = 500 THEN st
    ELSE IF i > Len(inputs) THEN [st EXCEPT !.status = 201]
    ELSE PostLoop(PostPlace(st, inputs[i], i, c, PostPriority(inputs[i], c)),
                  inputs, i + 1, c)

\* route.ts lines 77-346.
PostHandler(ts, cal, clock, zone, isLinked, inputs, fault) ==
    LET existingTasks == PostExistingTasks(ts, clock, zone)
    IN  PostLoop([tasks |-> ts, calendar |-> cal, plannedTasks |-> <<>>,
                  createdTasks |-> <<>>, notifications |-> <<>>, status |-> 0],
                 inputs, 1,
                 [clock |-> clock, zone |-> zone, linked |-> isLinked, fault |-> fault,
                  existingTasks |-> existingTasks])

(***************************************************************************)
(* rescheduleRemainingTasks ([id]/route.ts lines 353-509)                  *)
(***************************************************************************)
\* A timestamp as text.  The table returns a timestamptz column as
\* "...T09:00:00+00:00" and Date.toISOString() gives "...T09:00:00.000Z": the
\* same instant, two spellings.
DbText(t) == [instant |-> t, form |-> "+00:00"]
toISOString(t) == [instant |-> t, form |-> ".000Z"]

\* scheduling.ts lines 229-245 without a zone: the server's local day.
getStartOfDay(date) == getStartOfDayInTimeZone(date, ServerZone)
getEndOfDay(date) == getEndOfDayInTimeZone(date, ServerZone)

\* Lines 381-387.
CascadeSelected(t, excludeTaskId, clock) ==
    /\ t.status = "scheduled"
    /\ excludeTaskId # Some(t.id)
    /\ \/ ~IsSome(t.scheduled_start)
       \/ /\ Val(t.scheduled_start) >= clock
          /\ Val(t.scheduled_start) >= getStartOfDay(clock)
          /\ Val(t.scheduled_start) <= getEndOfDay(clock)

\* Mutant of CascadeBefore: the deadlines are not compared.
CascadeBefore_NoDeadline(a, b) ==
    IF a.priority # b.priority THEN a.priority > b.priority
    ELSE IF ~IsSome(a.scheduled_start) THEN FALSE
    ELSE IF ~IsSome(b.scheduled_start) THEN TRUE
    ELSE Val(a.scheduled_start) < Val(b.scheduled_start)

\* Lines 388-396: a sorts before b (strictly).
CascadeBefore(a, b) ==
    IF a.priority # b.priority THEN a.priority > b.priority
    ELSE IF a.deadline # b.deadline
         THEN IF ~IsSome(a.deadline) THEN FALSE
              ELSE IF ~IsSome(b.deadline) THEN TRUE
              ELSE Val(a.deadline) < Val(b.deadline)
    ELSE IF ~IsSome(a.scheduled_start) THEN FALSE
    ELSE IF ~IsSome(b.scheduled_start) THEN TRUE
    ELSE Val(a.scheduled_start) < Val(b.scheduled_start)

RECURSIVE CascadeInsert(_, _)
CascadeInsert(sorted, x) ==
    IF sorted = <<>> THEN <<x>>
    ELSE IF CascadeBefore(x, Head(sorted)) THEN <<x>> \o sorted
    ELSE <<Head(sorted)>> \o CascadeInsert(Tail(sorted), x)

RECURSIVE CascadeSort(_)
\* The stable sort of lines 388-396.
CascadeSort(s) ==
    IF s = <<>> THEN <<>>
    ELSE CascadeInsert(CascadeSort(SubSeq(s, 1, Len(s) - 1)), s[Len(s)])

tasksToReschedule(ts, excludeTaskId, clock) ==
    CascadeSort(SelectSeq(ts, LAMBDA t : CascadeSelected(t, excludeTaskId, clock)))

SetWindow(t, start, end) == [t EXCEPT !.scheduled_start = start, !.scheduled_end = end]

\* update({scheduled_start, scheduled_end}).eq("id", id).
SetRowWindow(ts, id, start, end) ==
    [i \in 1..Len(ts) |-> IF ts[i].id = id THEN SetWindow(ts[i], start, end) ELSE ts[i]]

\* Mutant of CascadePlace: a task for which no slot was found does not push
\* its previous window onto busySlots.
CascadePlace_FallbackNotBusy(st, task, i, c, slot) ==
    LET hasFallback == IsSome(task.scheduled_start) /\ IsSome(task.scheduled_end)
        result == [taskId |-> task.id, slot |-> slot,
                   previousStart |-> task.scheduled_start,
                   previousEnd |-> task.scheduled_end,
                   busySlots |-> st.busySlots]
        changed == \/ ~IsSome(task.scheduled_start) \/ ~IsSome(task.scheduled_end)
                   \/ DbText(Val(task.scheduled_start)) # toISOString(Val(slot).start)
                   \/ DbText(Val(task.scheduled_end)) # toISOString(Val(slot).end)
        calendar1 == IF changed /\ IsSome(task.google_calendar_event_id)
                        /\ ~Hits(c.fault, "calendar_write", i)
                     THEN updateEvent(st.calendar, Val(task.google_calendar_event_id),
                                      Some(Val(slot).start), Some(Val(slot).end))
                     ELSE st.calendar
        tasks1 == IF changed /\ ~Hits(c.fault, "db_write", i)
                  THEN SetRowWindow(st.tasks, task.id, Some(Val(slot).start),
                                    Some(Val(slot).end))
                  ELSE st.tasks
    IN  IF ~IsSome(slot)
        THEN [st EXCEPT
                !.plannedTasks = IF hasFallback THEN Append(@, task) ELSE @,
                !.results = Append(@, result)]
        ELSE [st EXCEPT
                !.busySlots = Append(@, Val(slot)),
                !.calendar = calendar1,
                !.tasks = tasks1,
                !.changes = IF changed THEN Append(@, result) ELSE @,
                !.plannedTasks = Append(@, SetWindow(task, Some(Val(slot).start),
                                                      Some(Val(slot).end))),
                !.results = Append(@, result)]

\* Lines 427-491: what the loop does with one task once the walker has answered.
CascadePlace(st, task, i, c, slot) ==
    LET hasFallback == IsSome(task.scheduled_start) /\ IsSome(task.scheduled_end)
        fallbackSlot == [start |-> Val(task.scheduled_start), end |-> Val(task.scheduled_end)]
        busy1 == IF IsSome(slot) THEN Append(st.busySlots, Val(slot))
                 ELSE IF hasFallback THEN Append(st.busySlots, fallbackSlot)
                 ELSE st.busySlots
        result == [taskId |-> task.id, slot |-> slot,
                   previousStart |-> task.scheduled_start,
                   previousEnd |-> task.scheduled_end,
                   busySlots |-> st.busySlots]
        changed == \/ ~IsSome(task.scheduled_start) \/ ~IsSome(task.scheduled_end)
                   \/ DbText(Val(task.scheduled_start)) # toISOString(Val(slot).start)
                   \/ DbText(Val(task.scheduled_end)) # toISOString(Val(slot).end)
        calendar1 == IF changed /\ IsSome(task.google_calendar_event_id)
                        /\ ~Hits(c.fault, "calendar_write", i)
                     THEN updateEvent(st.calendar, Val(task.google_calendar_event_id),
                                      Some(Val(slot).start), Some(Val(slot).end))
                     ELSE st.calendar
        tasks1 == IF changed /\ ~Hits(c.fault, "db_write", i)
                  THEN SetRowWindow(st.tasks, task.id, Some(Val(slot).start),
                                    Some(Val(slot).end))
                  ELSE st.tasks
    IN  IF ~IsSome(slot)
        THEN [st EXCEPT
                !.busySlots = busy1,
                !.plannedTasks = IF hasFallback THEN Append(@, task) ELSE @,
                !.results = Append(@, result)]
        ELSE [st EXCEPT
                !.busySlots = busy1,
                !.calendar = calendar1,
                !.tasks = tasks1,
                !.changes = IF changed THEN Append(@, result) ELSE @,
                !.plannedTasks = Append(@, SetWindow(task, Some(Val(slot).start),
                                                      Some(Val(slot).end))),
                !.results = Append(@, result)]

\* Lines 416-425: the walker is asked for a slot; a calendar read that fails
\* throws out of the loop.
CascadeStep(st, task, i, c) ==
    IF Hits(c.fault, "calendar_read", i) THEN [st EXCEPT !.threw = TRUE]
    ELSE CascadePlace(st, task, i, c,
             findOptimalSlot(SlotSearch(c.clock, c.zone, st.calendar,
                 task.estimated_duration_minutes, task.priority,
                 task.energy_requirement, st.plannedTasks, c.ignoreEventIds,
                 st.busySlots)))

RECURSIVE CascadeLoop(_, _, _, _)
\* Lines 415-491: the loop over tasksToReschedule from index i on.  st is
\* [tasks, calendar, busySlots, plannedTasks, changes, results, threw].
CascadeLoop(st, todo, i, c) ==
    IF st.threw \/ i > Len(todo) THEN st
    ELSE CascadeLoop(CascadeStep(st, todo[i], i, c), todo, i + 1, c)

\* Lines 400-402.
CascadeIgnoreEventIds(todo) ==
    { Val(todo[i].google_calendar_event_id) :
        i \in { j \in 1..Len(todo) : IsSome(todo[j].google_calendar_event_id) } }

\* Lines 493-508: what an invocation leaves behind: the new table and calendar,
\* the placement order, one result per processed task, the changes, and
\* whether the audit record and the notification were written.
CascadeOutcome(st, todo, triggerType, excludeTaskId) ==
    [tasks |-> st.tasks, calendar |-> st.calendar, threw |-> st.threw,
     record |-> [triggerType |-> triggerType, excludeTaskId |-> excludeTaskId,
                 order |-> [i \in 1..Len(todo) |-> todo[i].id],
                 results |-> st.results, changes |-> st.changes,
                 written |-> ~st.threw /\ Len(st.changes) > 0]]

\* Lines 404-491 over the sorted selection todo.
CascadeRun(ts, cal, clock, zone, triggerType, excludeTaskId, fault, todo) ==
    CascadeOutcome(
        CascadeLoop([tasks |-> ts, calendar |-> cal, busySlots |-> <<>>,
                     plannedTasks |-> <<>>, changes |-> <<>>, results |-> <<>>,
                     threw |-> FALSE],
                    todo, 1,
                    [clock |-> clock, zone |-> zone, fault |-> fault,
                     ignoreEventIds |-> CascadeIgnoreEventIds(todo)]),
        todo, triggerType, excludeTaskId)

\* Lines 353-509.
rescheduleRemainingTasks(ts, cal, clock, zone, triggerType, excludeTaskId, fault) ==
    CascadeRun(ts, cal, clock, zone, triggerType, excludeTaskId, fault,
               tasksToReschedule(ts, excludeTaskId, clock))

(***************************************************************************)
(* PATCH /api/tasks/[id] ([id]/route.ts lines 43-210).  A body field is    *)
(* None when the body does not carry it and Some(v) when it does; for      *)
(* deadline, scheduled_start and scheduled_end v is itself optional (null  *)
(* or an instant).  The fault position 0 is the handler's own update and   *)
(* calendar call; positions 1.. are the iterations of the cascade.         *)
(***************************************************************************)
\* Lines 83-103: the row after the update.
PatchedRow(t, body, clock) ==
    LET completing == body.status = Some("completed")
    IN  [t EXCEPT
           !.status = IF IsSome(body.status) THEN Val(body.status) ELSE @,
           !.actual_duration_minutes =
               IF completing /\ IsSome(t.scheduled_start)
               THEN Some(clock - Val(t.scheduled_start)) ELSE @,
           !.priority = IF IsSome(body.priority) THEN Val(body.priority) ELSE @,
           !.deadline = IF IsSome(body.deadline) THEN Val(body.deadline) ELSE @,
           !.scheduled_start = IF IsSome(body.scheduled_start)
                               THEN Val(body.scheduled_start) ELSE @,
           !.scheduled_end = IF IsSome(body.scheduled_end)
                             THEN Val(body.scheduled_end) ELSE @]

\* Line 120: scheduled_start || scheduled_end.
Truthy(field) == IsSome(field) /\ IsSome(Val(field))

\* Lines 173-174.
timeSaved(estimated, actualMinutes) ==
    IF IsSome(actualMinutes) /\ Val(actualMinutes) # 0
    THEN Max(0, estimated - Val(actualMinutes)) ELSE 0

MinTimeSaved == 5

\* Lines 106-156: the row update and the calendar calls of the handler itself.
PatchApplied(ts, cal, clock, usr, id, body, fault) ==
    LET existingTask == ts[id]
        hasEvent == IsSome(existingTask.google_calendar_event_id) /\ usr.linked
        calendarOk == ~Hits(fault, "calendar_write", 0)
        calendar1 == IF (Truthy(body.scheduled_start) \/ Truthy(body.scheduled_end))
                        /\ hasEvent /\ calendarOk
                     THEN updateEvent(cal, Val(existingTask.google_calendar_event_id),
                              IF Truthy(body.scheduled_start) THEN Val(body.scheduled_start)
                              ELSE None,
                              IF Truthy(body.scheduled_end) THEN Val(body.scheduled_end)
                              ELSE None)
                     ELSE cal
    IN  [tasks |-> [ts EXCEPT ![id] = PatchedRow(existingTask, body, clock)],
         calendar |-> IF body.status = Some("completed") /\ hasEvent /\ calendarOk
                      THEN deleteEvent(calendar1, Val(existingTask.google_calendar_event_id))
                      ELSE calendar1,
         threw |-> FALSE, cascades |-> <<>>]

\* Lines 158-175: a completion that freed at least MinTimeSaved minutes.
CompletedEarly(ts, clock, usr, id, body) ==
    /\ body.status = Some("completed") /\ usr.linked
    /\ timeSaved(ts[id].estimated_duration_minutes,
                 PatchedRow(ts[id], body, clock).actual_duration_minutes) >= MinTimeSaved

\* Lines 193: a priority or a deadline in the body.
Mutated(usr, body) == (IsSome(body.priority) \/ IsSome(body.deadline)) /\ usr.linked

\* The handler's state after one more cascade.
AfterCascade(p, outcome) ==
    [tasks |-> outcome.tasks, calendar |-> outcome.calendar, threw |-> outcome.threw,
     cascades |-> Append(p.cascades, outcome.record)]

\* Lines 176-186.
PatchFirstCascade(p, clock, usr, id, body, fault, early) ==
    IF early
    THEN AfterCascade(p, rescheduleRemainingTasks(p.tasks, p.calendar, clock, usr.zone,
                             "task_completed_early", Some(id), fault))
    ELSE p

\* Lines 193-203.
PatchSecondCascade(p, clock, usr, body, fault) ==
    IF Mutated(usr, body) /\ ~p.threw
    THEN AfterCascade(p, rescheduleRemainingTasks(p.tasks, p.calendar, clock, usr.zone,
                             IF IsSome(body.priority) THEN "priority_changed"
                             ELSE "deadline_changed", None, fault))
    ELSE p

\* Lines 205-209: an error thrown by a cascade is answered with 500.
PatchResponse(p) ==
    [tasks |-> p.tasks, calendar |-> p.calendar,
     status |-> IF p.threw THEN 500 ELSE 200, cascades |-> p.cascades]

\* Lines 43-210; a row that is not there is answered 404.
PatchHandler(ts, cal, clock, usr, id, body, fault) ==
    IF ts[id].status = "deleted"
    THEN [tasks |-> ts, calendar |-> cal, status |-> 404, cascades |-> <<>>]
    ELSE IF Hits(fault, "db_write", 0) \/ ~PriorityCheck(PatchedRow(ts[id], body, clock).priority)
    THEN [tasks |-> ts, calendar |-> cal, status |-> 500, cascades |-> <<>>]
    ELSE PatchResponse(
             PatchSecondCascade(
                 PatchFirstCascade(PatchApplied(ts, cal, clock, usr, id, body, fault),
                                   clock, usr, id, body, fault,
                                   CompletedEarly(ts, clock, usr, id, body)),
                 clock, usr, body, fault))

(***************************************************************************)
(* DELETE /api/tasks/[id] ([id]/route.ts lines 213-289).  The deleted row  *)
(* stays in the sequence with status "deleted", so that ids remain         *)
(* positions; no handler selects such a row.                               *)
(***************************************************************************)
\* Mutant of DeleteHandler: a failing deleteEvent aborts the request.
DeleteHandler_CalendarAborts(ts, cal, usr, id, fault) ==
    IF ts[id].status = "deleted" THEN [tasks |-> ts, calendar |-> cal, status |-> 404]
    ELSE IF Hits(fault, "calendar_write", 0) \/ Hits(fault, "db_write", 0)
    THEN [tasks |-> ts, calendar |-> cal, status |-> 500]
    ELSE [tasks |-> [ts EXCEPT ![id].status = "deleted"],
          calendar |-> IF IsSome(ts[id].google_calendar_event_id) /\ usr.linked
                       THEN deleteEvent(cal, Val(ts[id].google_calendar_event_id))
                       ELSE cal,
          status |-> 200]

DeleteHandler(ts, cal, usr, id, fault) ==
    LET task == ts[id]
        calendar1 == IF IsSome(task.google_calendar_event_id) /\ usr.linked
                        /\ ~Hits(fault, "calendar_write", 0)
                     THEN deleteEvent(cal, Val(task.google_calendar_event_id))
                     ELSE cal
    IN  IF task.status = "deleted"
        THEN [tasks |-> ts, calendar |-> cal, status |-> 404]
        ELSE IF Hits(fault, "db_write", 0)
        THEN [tasks |-> ts, calendar |-> calendar1, status |-> 500]
        ELSE [tasks |-> [ts EXCEPT ![id].status = "deleted"], calendar |-> calendar1,
              status |-> 200]

(***************************************************************************)
(* findFreeSlots under study: every call over a family of windows,         *)
(* durations, calendars and passed-in busy slots.                          *)
(***************************************************************************)
MaxBusy == 2

FinderWindows ==
    { [startTime |-> 540,  endTime |-> 1080],     \* 09:00-18:00
      [startTime |-> 1080, endTime |-> 1260],     \* 18:00-21:00, an extension window
      [startTime |-> 1000, endTime |-> 1080] }    \* a day-0 window clamped to now + buffer

FinderDurations == {30, 60, 480}

FinderBusy ==
    { [start |-> 595,  end |-> 665],      \* a task 10:00-11:00 padded by 5
      [start |-> 530,  end |-> 560],      \* straddles 09:00
      [start |-> 1040, end |-> 1100],     \* straddles 18:00
      [start |-> 600,  end |-> 600],      \* empty
      [start |-> 545,  end |-> 1075],     \* nearly the whole working day
      [start |-> 1135, end |-> 1205],     \* inside the extension window
      [start |-> 2035, end |-> 2105] }    \* a task on the next day

FinderEvents ==
    { [id |-> 1, start |-> 600, end |-> 660, timed |-> TRUE],
      [id |-> 2, start |-> 780, end |-> 840, timed |-> TRUE],
      [id |-> 3, start |-> 0,   end |-> 1440, timed |-> FALSE] }

SeqsUpTo(S, n) == UNION { [1..k -> S] : k \in 0..n }

sysIdle ==
    /\ now = 0 /\ user = <<>> /\ tasks = <<>> /\ calendar = {} /\ nreq = 0 /\ nfault = 0
    /\ last = [op |-> "none"] /\ inflight = <<>>

finderIdle == fArgs = <<>> /\ fResult = <<>>
walkerIdle == wArgs = <<>> /\ wDay = 0 /\ wExamined = 0 /\ wPc = "idle" /\ wResult = <<>>
priorityIdle == pArgs = <<>> /\ pResult = <<>>

FinderInit ==
    /\ \E w \in FinderWindows, d \in FinderDurations, cal \in SUBSET FinderEvents,
          ig \in {{}, {1}}, busy \in SeqsUpTo(FinderBusy, MaxBusy) :
          fArgs = [cal |-> cal, startTime |-> w.startTime, endTime |-> w.endTime,
                   durationMinutes |-> d, ignoreEventIds |-> ig, busySlots |-> busy]
    /\ fResult = None
    /\ walkerIdle /\ priorityIdle /\ sysIdle

FinderCall ==
    /\ fResult = None
    /\ fResult' = Some(findFreeSlots(fArgs.cal, fArgs.startTime, fArgs.endTime,
                                     fArgs.durationMinutes, fArgs.ignoreEventIds,
                                     fArgs.busySlots))
    /\ UNCHANGED <<fArgs, walkerVars, priorityVars, sysVars>>

FinderNext == FinderCall

SpecFinder == FinderInit /\ [][FinderNext]_vars

\* The busy intervals a call is given: the timed, not ignored events the
\* calendar lists for the window, and the passed-in busy slots.
FinderInputIntervals ==
    { [start |-> e.start, end |-> e.end] :
        e \in { x \in fArgs.cal : /\ x.end > fArgs.startTime /\ x.start < fArgs.endTime
                                  /\ x.timed /\ x.id \notin fArgs.ignoreEventIds } }
    \cup { fArgs.busySlots[i] : i \in 1..Len(fArgs.busySlots) }

FinderSlots == { Val(fResult)[i] : i \in 1..Len(Val(fResult)) }

\* C1: every slot findFreeSlots returns has length exactly the requested
\* duration and overlaps none of the input busy intervals.
C1_SlotLengthAndNoOverlap ==
    IsSome(fResult) =>
        \A s \in FinderSlots :
            /\ s.end - s.start = fArgs.durationMinutes
            /\ \A b \in FinderInputIntervals : ~Overlaps(s, b)

\* Witness of C1: a call with an event and two busy slots that returned two slots.
C1_Witness ==
    /\ IsSome(fResult)
    /\ Cardinality(FinderSlots) >= 2
    /\ Len(fArgs.busySlots) = 2
    /\ \E e \in fArgs.cal : e.timed /\ e.id \notin fArgs.ignoreEventIds

\* C2: every slot findFreeSlots returns lies within [window start, window end].
C2_SlotWithinWindow ==
    IsSome(fResult) =>
        \A s \in FinderSlots : s.start >= fArgs.startTime /\ s.end <= fArgs.endTime

(***************************************************************************)
(* findOptimalSlot under study: one call, its day loop taken one           *)
(* iteration at a time.                                                    *)
(***************************************************************************)
MaxExisting == 2

WalkerNows == {480, 1040, 1110}          \* 08:00, 17:20 and 18:30 UTC of day 0
WalkerDurations == {30, 60, 480}
WalkerPriorities == {2, 5}
WalkerEnergy == {"high", "medium"}
WalkerZones == {0, 330}                  \* UTC and UTC+05:30
WalkerBuffers == {DefaultBufferMinutes, 0}
WalkerWorkingHours == {DefaultWorkingHours, [start |-> 9, end |-> 12, maxExtension |-> 2]}
WalkerEnergyMaps ==
    { <<[startHour |-> 9, endHour |-> 12, level |-> "high"]>>,
      <<[startHour |-> 9, endHour |-> 10, level |-> "low"],
        [startHour |-> 14, endHour |-> 19, level |-> "high"]>> }

Window(s, e) == [scheduled_start |-> Some(s), scheduled_end |-> Some(e)]

\* The scheduled windows existing tasks may have, in the order they are listed.
WalkerTaskChoices ==
    << Window(600, 660),                  \* 10:00-11:00 of day 0
       Window(545, 1050),                 \* 09:05-17:30 of day 0
       Window(2040, 2100),                \* 10:00-11:00 of day 1
       [scheduled_start |-> None, scheduled_end |-> None] >>

WalkerCalendars ==
    { [cal |-> {}, ignoreEventIds |-> {}],
      [cal |-> {[id |-> 1, start |-> 600, end |-> 660, timed |-> TRUE]},
       ignoreEventIds |-> {}],
      [cal |-> {[id |-> 1, start |-> 600, end |-> 660, timed |-> TRUE]},
       ignoreEventIds |-> {1}],
      [cal |-> {[id |-> 2, start |-> 0, end |-> 20000, timed |-> TRUE]},
       ignoreEventIds |-> {}] }

RECURSIVE Pick(_, _, _)
\* The elements of list s whose index is in idx, in list order.
Pick(s, idx, i) ==
    IF i > Len(s) THEN <<>>
    ELSE (IF i \in idx THEN <<s[i]>> ELSE <<>>) \o Pick(s, idx, i + 1)

WalkerInit ==
    /\ \E n \in WalkerNows, d \in WalkerDurations, p \in WalkerPriorities,
          en \in WalkerEnergy, z \in WalkerZones, b \in WalkerBuffers,
          wh \in WalkerWorkingHours, em \in WalkerEnergyMaps, c \in WalkerCalendars,
          idx \in SUBSET (1..Len(WalkerTaskChoices)) :
          /\ Cardinality(idx) <= MaxExisting
          /\ wArgs = [now |-> n, duration |-> d, priority |-> p, energyRequirement |-> en,
                      timeZone |-> z, bufferMinutes |-> b, workingHours |-> wh,
                      energyMap |-> em, cal |-> c.cal, ignoreEventIds |-> c.ignoreEventIds,
                      existingTasks |-> Pick(WalkerTaskChoices, idx, 1),
                      busySlots |-> <<>>]
    /\ wDay = 0 /\ wExamined = 0 /\ wPc = "loop" /\ wResult = None
    /\ finderIdle /\ priorityIdle /\ sysIdle

\* Line 177: the day's window is empty, continue.
WalkerSkipDay ==
    /\ wPc = "loop" /\ LoopContinues(wDay)
    /\ DaySkipped(wArgs, wDay)
    /\ wDay' = wDay + 1
    /\ UNCHANGED <<wArgs, wExamined, wPc, wResult, finderVars, priorityVars, sysVars>>

\* Line 196: neither the primary nor the extension window has a candidate.
WalkerDayEmpty ==
    /\ wPc = "loop" /\ LoopContinues(wDay)
    /\ ~DaySkipped(wArgs, wDay)
    /\ availableSlots(wArgs, wDay) = <<>>
    /\ wDay' = wDay + 1
    /\ wExamined' = wExamined + 1
    /\ UNCHANGED <<wArgs, wPc, wResult, finderVars, priorityVars, sysVars>>

\* Lines 200-223: the day has candidates, return the best.
WalkerReturnBest ==
    /\ wPc = "loop" /\ LoopContinues(wDay)
    /\ ~DaySkipped(wArgs, wDay)
    /\ availableSlots(wArgs, wDay) # <<>>
    /\ wResult' = Some(BestSlot(wArgs, availableSlots(wArgs, wDay)))
    /\ wExamined' = wExamined + 1
    /\ wPc' = "done"
    /\ UNCHANGED <<wArgs, wDay, finderVars, priorityVars, sysVars>>

\* Line 226: the loop ran out of days.
WalkerReturnNull ==
    /\ wPc = "loop" /\ ~LoopContinues(wDay)
    /\ wResult' = None
    /\ wPc' = "done"
    /\ UNCHANGED <<wArgs, wDay, wExamined, finderVars, priorityVars, sysVars>>

WalkerNext == WalkerSkipDay \/ WalkerDayEmpty \/ WalkerReturnBest \/ WalkerReturnNull

SpecWalker == WalkerInit /\ [][WalkerNext]_vars

(***************************************************************************)
(* findOptimalSlot called with the rows PATCH can leave behind: PATCH      *)
(* copies scheduled_start from the body into the row without looking at    *)
(* scheduled_end ([id]/route.ts lines 102-111), so a task placed at        *)
(* 09:30-10:00 and then given the start 10:35 is an existing task whose    *)
(* window starts after it ends.                                            *)
(***************************************************************************)
PatchedNows == {480, 1110}
PatchedDurations == {30, 60}
PatchedTaskChoices ==
    << Window(635, 600),                  \* start 10:35, end 10:00 of day 0
       Window(960, 1020) >>               \* 16:00-17:00 of day 0

PatchedWalkerInit ==
    /\ \E n \in PatchedNows, d \in PatchedDurations, p \in WalkerPriorities,
          en \in WalkerEnergy, b \in WalkerBuffers, wh \in WalkerWorkingHours,
          em \in WalkerEnergyMaps, c \in WalkerCalendars,
          idx \in SUBSET (1..Len(PatchedTaskChoices)) :
          wArgs = [now |-> n, duration |-> d, priority |-> p, energyRequirement |-> en,
                   timeZone |-> 0, bufferMinutes |-> b, workingHours |-> wh,
                   energyMap |-> em, cal |-> c.cal, ignoreEventIds |-> c.ignoreEventIds,
                   existingTasks |-> Pick(PatchedTaskChoices, idx, 1),
                   busySlots |-> <<>>]
    /\ wDay = 0 /\ wExamined = 0 /\ wPc = "loop" /\ wResult = None
    /\ finderIdle /\ priorityIdle /\ sysIdle

SpecWalkerPatched == PatchedWalkerInit /\ [][WalkerNext]_vars

\* The stepwise loop and the function the handlers call agree.
WalkerAgrees == wPc = "done" => wResult = findOptimalSlot(wArgs)

Within(slot, w) == slot.start >= w.startTime /\ slot.end <= w.endTime

\* The window has a free gap of the required duration: some placement of the
\* task inside the window overlaps no busy interval of the search.
WalkerBusy(a, w) ==
    { [start |-> e.start, end |-> e.end] :
        e \in { x \in a.cal : /\ x.end > w.startTime /\ x.start < w.endTime
                              /\ x.timed /\ x.id \notin a.ignoreEventIds } }
    \cup { combinedBusySlots(a)[i] : i \in 1..Len(combinedBusySlots(a)) }

HasGap(a, w) ==
    \E s \in w.startTime..(w.endTime - a.duration) :
        \A b \in WalkerBusy(a, w) : ~Overlaps([start |-> s, end |-> s + a.duration], b)

WalkerDone == wPc = "done"
WalkerSlot == Val(wResult)

\* C6: the returned slot lies inside the primary or the extension window of
\* the day that supplied it, and that day is the earliest examined day whose
\* primary or extension window has a free gap of the required duration.
C6_EarliestDayWithGap ==
    (WalkerDone /\ IsSome(wResult)) =>
        /\ \/ Within(WalkerSlot, DayWindow(wArgs, wDay))
           \/ Within(WalkerSlot, ExtensionWindow(wArgs, wDay))
        /\ \/ HasGap(wArgs, DayWindow(wArgs, wDay))
           \/ HasGap(wArgs, ExtensionWindow(wArgs, wDay))
        /\ \A d \in 0..(wDay - 1) :
              ~DaySkipped(wArgs, d) =>
                  /\ ~HasGap(wArgs, DayWindow(wArgs, d))
                  /\ ~HasGap(wArgs, ExtensionWindow(wArgs, d))

\* C7: a day whose primary window has no gap of the required duration while
\* its extension window has one is never passed over, and the slot returned
\* on such a day lies inside that day's extension window.
C7_ExtensionSlotReturned ==
    /\ \A d \in 0..(wDay - 1) :
          ~DaySkipped(wArgs, d) =>
              ~(/\ ~HasGap(wArgs, DayWindow(wArgs, d))
                /\ HasGap(wArgs, ExtensionWindow(wArgs, d)))
    /\ (/\ WalkerDone /\ LoopContinues(wDay)
        /\ ~HasGap(wArgs, DayWindow(wArgs, wDay))
        /\ HasGap(wArgs, ExtensionWindow(wArgs, wDay)))
       => /\ IsSome(wResult)
          /\ Within(WalkerSlot, ExtensionWindow(wArgs, wDay))

\* C8: the loop hands at most maxDaysAhead + 1 day windows to the finder, and
\* returns null exactly when no day of offsets 0..maxDaysAhead has a candidate.
C8_BoundedDaysAndNull ==
    /\ wExamined <= MaxDaysAhead + 1
    /\ wDay <= MaxDaysAhead + 1
    /\ WalkerDone =>
          (wResult = None <=>
              \A d \in 0..MaxDaysAhead :
                  DaySkipped(wArgs, d) \/ availableSlots(wArgs, d) = <<>>)

\* Witness of C8: a call that examined all maxDaysAhead + 1 days and returned null.
C8_Witness == WalkerDone /\ wResult = None /\ wExamined = MaxDaysAhead + 1

\* The scenario of C9: working hours 09:00-18:00, buffer 5, one task
\* 10:00-11:00, 09:00-12:00 = high, a 30-minute high-energy task asked for at 08:00.
C9_Scenario ==
    /\ wArgs.workingHours = DefaultWorkingHours
    /\ wArgs.bufferMinutes = 5
    /\ wArgs.existingTasks = <<Window(600, 660)>>
    /\ wArgs.energyMap = <<[startHour |-> 9, endHour |-> 12, level |-> "high"]>>
    /\ wArgs.duration = 30 /\ wArgs.energyRequirement = "high"
    /\ wArgs.now = 480 /\ wArgs.timeZone = 0 /\ wArgs.cal = {}

\* C9: the returned slot is the candidate of the chosen day with the highest
\* score, and among candidates of equal score the first emitted, which is the
\* earliest-starting one; in the scenario it is 09:00-09:30.
C9_BestScoreFirstOnTies ==
    (WalkerDone /\ IsSome(wResult)) =>
        LET cands == availableSlots(wArgs, wDay)
        IN  /\ \E i \in 1..Len(cands) :
                  /\ cands[i] = WalkerSlot
                  /\ \A j \in 1..Len(cands) :
                        /\ SlotScore(wArgs, cands[j]) <= SlotScore(wArgs, cands[i])
                        /\ SlotScore(wArgs, cands[j]) = SlotScore(wArgs, cands[i])
                              => (j >= i /\ cands[j].start >= cands[i].start)
            /\ C9_Scenario => WalkerSlot = [start |-> 540, end |-> 570]

\* Witness of C9: the scenario at priority 2, where both candidates of the
\* day (09:00 and 11:05) score the same.
C9_Witness ==
    /\ WalkerDone /\ IsSome(wResult) /\ C9_Scenario /\ wArgs.priority = 2
    /\ Len(availableSlots(wArgs, wDay)) = 2
    /\ SlotScore(wArgs, availableSlots(wArgs, wDay)[1])
         = SlotScore(wArgs, availableSlots(wArgs, wDay)[2])

(***************************************************************************)
(* calculatePriority under study.                                          *)
(***************************************************************************)
PriorityNows == {480, 1040}
\* Deadlines as minutes from now: past, now, and both sides of every threshold.
PriorityDeadlineOffsets == {0 - 60, 0, 180, 240, 241, 1440, 1441, 1800, 2880, 2881, 10080, 10081}
PriorityCategories == {"client_work", "admin", "deep_work"}
PriorityExistingCategories == {"client_work", "admin"}

PriorityInit ==
    /\ \E n \in PriorityNows, c \in PriorityCategories,
          dlo \in {None} \cup { Some(o) : o \in PriorityDeadlineOffsets },
          ex \in SeqsUpTo({[task_category |-> k] : k \in PriorityExistingCategories},
                          MaxExisting) :
          pArgs = [now |-> n, taskType |-> c, existingTasks |-> ex,
                   deadline |-> IF IsSome(dlo) THEN Some(n + Val(dlo)) ELSE None]
    /\ pResult = None
    /\ finderIdle /\ walkerIdle /\ sysIdle

PriorityCall ==
    /\ pResult = None
    /\ pResult' = Some(calculatePriority(pArgs.deadline, pArgs.taskType,
                                         pArgs.existingTasks, pArgs.now))
    /\ UNCHANGED <<pArgs, finderVars, walkerVars, sysVars>>

PriorityNext == PriorityCall

SpecPriority == PriorityInit /\ [][PriorityNext]_vars

\* C10: calculatePriority returns an integer between 1 and 5 inclusive.
C10_PriorityInRange == IsSome(pResult) => Val(pResult) \in 1..5

\* Witness of C10: client work with no task of its category and a deadline
\* three hours away, where the boost meets the cap.
C10_Witness ==
    /\ IsSome(pResult)
    /\ pArgs.taskType = "client_work" /\ pArgs.existingTasks = <<>>
    /\ pArgs.deadline = Some(pArgs.now + 180)
    /\ Val(pResult) = 5

\* The category is client work and no existing task has it.
PriorityBoostCase ==
    /\ pArgs.taskType = "client_work"
    /\ ~\E i \in 1..Len(pArgs.existingTasks) :
           pArgs.existingTasks[i].task_category = "client_work"

\* 60 * h, h the hours from now to the deadline.
PriorityMinutesLeft == Val(pArgs.deadline) - pArgs.now

\* The table of C11 before the boost.
PriorityTable ==
    IF ~IsSome(pArgs.deadline) THEN 3
    ELSE IF PriorityMinutesLeft <= 240 THEN 5
    ELSE IF PriorityMinutesLeft <= 1440 THEN 4
    ELSE IF PriorityMinutesLeft <= 2880 THEN 3
    ELSE IF PriorityMinutesLeft <= 10080 THEN 2
    ELSE 1

\* C11: calculatePriority returns 3 without a deadline, otherwise 5, 4, 3, 2, 1
\* for h <= 4, <= 24, <= 48, <= 168 and beyond (bounds inclusive), plus 1
\* capped at 5 exactly when the category is client work and no existing task
\* has that category.
C11_PriorityTable ==
    IsSome(pResult) =>
        Val(pResult) = IF PriorityBoostCase
                       THEN (IF PriorityTable + 1 > 5 THEN 5 ELSE PriorityTable + 1)
                       ELSE PriorityTable

\* Witness of C11: a deadline exactly 24 hours away, boosted from 4 to 5.
C11_Witness ==
    /\ IsSome(pResult) /\ PriorityBoostCase
    /\ pArgs.deadline = Some(pArgs.now + 1440)
    /\ Val(pResult) = 5

\* C12: with no boost applying, a deadline 3 hours away gives 5, one 30 hours
\* away gives 4, and no deadline gives 3.
C12_PriorityScenarios ==
    (IsSome(pResult) /\ ~PriorityBoostCase) =>
        /\ pArgs.deadline = Some(pArgs.now + 180) => Val(pResult) = 5
        /\ pArgs.deadline = Some(pArgs.now + 1800) => Val(pResult) = 4
        /\ pArgs.deadline = None => Val(pResult) = 3

\* C12 as amended: with no boost applying, a deadline 3 hours away gives 5,
\* one 30 hours away gives 3 (it is past the 24-hour threshold), and no
\* deadline gives 3.
C12_PriorityScenariosAmended ==
    (IsSome(pResult) /\ ~PriorityBoostCase) =>
        /\ pArgs.deadline = Some(pArgs.now + 180) => Val(pResult) = 5
        /\ pArgs.deadline = Some(pArgs.now + 1800) => Val(pResult) = 3
        /\ pArgs.deadline = None => Val(pResult) = 3

\* Witness of C12: the 30-hour deadline, unboosted, scored 3.
C12_Witness ==
    /\ IsSome(pResult) /\ ~PriorityBoostCase
    /\ pArgs.deadline = Some(pArgs.now + 1800)
    /\ Val(pResult) = 3

(***************************************************************************)
(* The service: one user, requests handled one at a time.                  *)
(***************************************************************************)
MaxTasks == 3
MaxBatch == 2
MaxRequests == 3
MaxTicks == 1
MaxFaults == 1

SysStartTimes == {480}                  \* 08:00 UTC of day 0
SysTickMinutes == {90}
SysZones == {0}
SysCalendars == { {[id |-> 1, start |-> 570, end |-> 630, timed |-> TRUE]} }
\* What a request asks for: a half-hour task with no deadline, an hour-long
\* task due in three hours.
SysRequests ==
    { [estimate |-> 30, deadlineIn |-> None],
      [estimate |-> 60, deadlineIn |-> Some(180)] }
FaultKinds == {"calendar_read", "calendar_write", "db_write"}
NoFault == [kind |-> "none", at |-> 0]

\* What assessPriority answers during one request: it fails, or it answers a
\* priority inside or outside 1..5.
SysAiAnswers == {None, Some(4), Some(7)}

PostInputs(clock, ai) ==
    { [estimate |-> q.estimate, category |-> "admin", energy |-> "medium",
       aiPriority |-> ai,
       deadline |-> IF IsSome(q.deadlineIn) THEN Some(clock + Val(q.deadlineIn)) ELSE None] :
        q \in SysRequests }

PostBatches(clock) ==
    UNION { SeqsUpTo(PostInputs(clock, ai), MaxBatch) \ {<<>>} : ai \in SysAiAnswers }

EmptyBody ==
    [status |-> None, priority |-> None, deadline |-> None,
     scheduled_start |-> None, scheduled_end |-> None]

PatchBodies(clock) ==
    { [EmptyBody EXCEPT !.status = Some("completed")],
      [EmptyBody EXCEPT !.priority = Some(5)],
      [EmptyBody EXCEPT !.priority = Some(0)],
      [EmptyBody EXCEPT !.deadline = Some(Some(clock + 180))],
      [EmptyBody EXCEPT !.scheduled_start = Some(Some(840))] }

\* At most MaxFaults requests meet a failing calendar or database call.
FaultStep(fault) ==
    IF fault = NoFault THEN nfault' = nfault
    ELSE nfault < MaxFaults /\ nfault' = nfault + 1

Init ==
    /\ now \in SysStartTimes
    /\ user \in [linked : BOOLEAN, zone : SysZones]
    /\ tasks = <<>>
    /\ calendar \in SysCalendars
    /\ nreq = 0
    /\ nfault = 0
    /\ last = [op |-> "none"]
    /\ inflight = <<>>
    /\ finderIdle /\ walkerIdle /\ priorityIdle

\* What a POST leaves behind; outcome is the handler's result and unfaulted the
\* result the same request has when no call fails.  A fault that changes
\* nothing hit no call and is no fault.  last.clean is the status the request
\* is answered with when no call fails.
PostCommit(inputs, fault, outcome, unfaulted) ==
    /\ fault = NoFault \/ outcome # unfaulted
    /\ tasks' = outcome.tasks
    /\ calendar' = outcome.calendar
    /\ last' = [op |-> "POST", status |-> outcome.status, fault |-> fault,
                clean |-> IF fault = NoFault THEN outcome.status ELSE unfaulted.status,
                asked |-> Len(inputs),
                loaded |-> { PostExistingTasks(tasks, now, user.zone)[i].id :
                               i \in 1..Len(PostExistingTasks(tasks, now, user.zone)) },
                created |-> outcome.createdTasks,
                notifications |-> outcome.notifications]

\* POST /api/tasks with one or more inputs.
Post ==
    /\ nreq < MaxRequests
    /\ \E inputs \in PostBatches(now) :
       \E fault \in {NoFault} \cup [kind : FaultKinds, at : 1..Len(inputs)] :
          /\ Len(tasks) + Len(inputs) <= MaxTasks
          /\ FaultStep(fault)
          /\ PostCommit(inputs, fault,
                 PostHandler(tasks, calendar, now, user.zone, user.linked, inputs, fault),
                 PostHandler(tasks, calendar, now, user.zone, user.linked, inputs, NoFault))
    /\ nreq' = nreq + 1
    /\ UNCHANGED <<inflight, now, user, finderVars, walkerVars, priorityVars>>

\* What a PATCH leaves behind.
PatchCommit(id, body, fault, outcome, unfaulted) ==
    /\ fault = NoFault \/ outcome # unfaulted
    /\ tasks' = outcome.tasks
    /\ calendar' = outcome.calendar
    /\ last' = [op |-> "PATCH", status |-> outcome.status, fault |-> fault,
                clean |-> IF fault = NoFault THEN outcome.status ELSE unfaulted.status,
                id |-> id, body |-> body, cascades |-> outcome.cascades]

\* PATCH /api/tasks/[id].
Patch ==
    /\ nreq < MaxRequests
    /\ \E id \in 1..Len(tasks), body \in PatchBodies(now),
          fault \in {NoFault} \cup [kind : FaultKinds, at : 0..1] :
          /\ FaultStep(fault)
          /\ PatchCommit(id, body, fault,
                 PatchHandler(tasks, calendar, now, user, id, body, fault),
                 PatchHandler(tasks, calendar, now, user, id, body, NoFault))
    /\ nreq' = nreq + 1
    /\ UNCHANGED <<inflight, now, user, finderVars, walkerVars, priorityVars>>

\* What a DELETE leaves behind.
DeleteCommit(id, fault, outcome, unfaulted) ==
    /\ fault = NoFault \/ outcome # unfaulted
    /\ tasks' = outcome.tasks
    /\ calendar' = outcome.calendar
    /\ last' = [op |-> "DELETE", status |-> outcome.status, fault |-> fault, id |-> id,
                clean |-> IF fault = NoFault THEN outcome.status ELSE unfaulted.status]

\* DELETE /api/tasks/[id].
Delete ==
    /\ nreq < MaxRequests
    /\ \E id \in 1..Len(tasks),
          fault \in {NoFault} \cup [kind : {"calendar_write", "db_write"}, at : {0}] :
          /\ FaultStep(fault)
          /\ DeleteCommit(id, fault, DeleteHandler(tasks, calendar, user, id, fault),
                          DeleteHandler(tasks, calendar, user, id, NoFault))
    /\ nreq' = nreq + 1
    /\ UNCHANGED <<inflight, now, user, finderVars, walkerVars, priorityVars>>

\* The OAuth callback stores the tokens of an existing user: the calendar is
\* linked from now on.
Link ==
    /\ ~user.linked
    /\ user' = [user EXCEPT !.linked = TRUE]
    /\ UNCHANGED <<inflight, now, tasks, calendar, nreq, nfault, last, finderVars, walkerVars,
                   priorityVars>>

\* Time passes between requests.
Tick ==
    /\ \E d \in SysTickMinutes, s0 \in SysStartTimes :
          /\ now + d <= s0 + MaxTicks * d
          /\ now' = now + d
    /\ UNCHANGED <<inflight, user, tasks, calendar, nreq, nfault, last, finderVars, walkerVars, priorityVars>>

Next == Post \/ Patch \/ Delete \/ Link \/ Tick

Spec == Init /\ [][Next]_vars

(***************************************************************************)
(* The service with a crowded calendar: a linked user whose calendar is    *)
(* taken from 10:10 of day 0 to beyond the horizon, so that 09:00-10:10 is *)
(* the only free time there is.  Requests are handled one at a time; a     *)
(* createEvent may fail.                                                   *)
(***************************************************************************)
CrowdedCalendar == {[id |-> 1, start |-> 610, end |-> 20000, timed |-> TRUE]}
\* 01:35 later it is 09:35, the minute the second half-hour task of a batch starts.
CrowdedTickMinutes == {95}

CrowdedBatches(clock) == SeqsUpTo(PostInputs(clock, None), MaxBatch) \ {<<>>}

CrowdedBodies(clock) ==
    { [EmptyBody EXCEPT !.status = Some("completed")],
      [EmptyBody EXCEPT !.priority = Some(5)],
      [EmptyBody EXCEPT !.deadline = Some(Some(clock + 180))] }

CrowdedInit ==
    /\ now \in SysStartTimes
    /\ user \in [linked : {TRUE}, zone : SysZones]
    /\ tasks = <<>>
    /\ calendar = CrowdedCalendar
    /\ nreq = 0
    /\ nfault = 0
    /\ last = [op |-> "none"]
    /\ inflight = <<>>
    /\ finderIdle /\ walkerIdle /\ priorityIdle

\* POST /api/tasks with one or more inputs.
CrowdedPost ==
    /\ nreq < MaxRequests
    /\ \E inputs \in CrowdedBatches(now) :
       \E fault \in {NoFault} \cup [kind : {"calendar_write"}, at : 1..Len(inputs)] :
          /\ Len(tasks) + Len(inputs) <= MaxTasks
          /\ FaultStep(fault)
          /\ PostCommit(inputs, fault,
                 PostHandler(tasks, calendar, now, user.zone, user.linked, inputs, fault),
                 PostHandler(tasks, calendar, now, user.zone, user.linked, inputs, NoFault))
    /\ nreq' = nreq + 1
    /\ UNCHANGED <<inflight, now, user, finderVars, walkerVars, priorityVars>>

\* PATCH /api/tasks/[id].
CrowdedPatch ==
    /\ nreq < MaxRequests
    /\ \E id \in 1..Len(tasks), body \in CrowdedBodies(now) :
          /\ FaultStep(NoFault)
          /\ PatchCommit(id, body, NoFault,
                 PatchHandler(tasks, calendar, now, user, id, body, NoFault),
                 PatchHandler(tasks, calendar, now, user, id, body, NoFault))
    /\ nreq' = nreq + 1
    /\ UNCHANGED <<inflight, now, user, finderVars, walkerVars, priorityVars>>

\* Time passes between requests.
CrowdedTick ==
    /\ \E d \in CrowdedTickMinutes, s0 \in SysStartTimes :
          /\ now + d <= s0 + MaxTicks * d
          /\ now' = now + d
    /\ UNCHANGED <<inflight, user, tasks, calendar, nreq, nfault, last, finderVars, walkerVars, priorityVars>>

CrowdedNext == CrowdedPost \/ CrowdedPatch \/ CrowdedTick

SpecCrowded == CrowdedInit /\ [][CrowdedNext]_vars

(***************************************************************************)
(* POST /api/tasks from several requests of one user at a time.  The       *)
(* handler takes no lock and awaits between its steps, so the steps of     *)
(* different requests interleave: the load of the existing tasks (route.ts *)
(* lines 130-142), the slot search (lines 203-222), and the writes of the  *)
(* calendar event and of the row (lines 224-277).  Each request creates    *)
(* one task.  The event and the row are written in one step: a request     *)
(* that reads between the two sees the event on the calendar, which keeps  *)
(* it off the window just as the row would.                                *)
(***************************************************************************)
MaxClients == 3

Clients == 1..MaxClients

IdleClient ==
    [pc |-> "idle", input |-> None, rowsAtLoad |-> 0, existingTasks |-> <<>>,
     slot |-> None, created |-> None]

RaceInit ==
    /\ now \in SysStartTimes
    /\ user \in [linked : {TRUE}, zone : SysZones]
    /\ tasks = <<>>
    /\ calendar \in SysCalendars
    /\ nreq = 0
    /\ nfault = 0
    /\ last = [op |-> "none"]
    /\ inflight = [c \in Clients |-> IdleClient]
    /\ finderIdle /\ walkerIdle /\ priorityIdle

\* route.ts lines 130-142: the request reads the scheduled tasks of the user.
RaceLoad(c) ==
    /\ inflight[c].pc = "idle"
    /\ \E in \in PostInputs(now, None) :
          inflight' = [inflight EXCEPT ![c] =
              [pc |-> "loaded", input |-> Some(in), rowsAtLoad |-> Len(tasks),
               existingTasks |-> PostExistingTasks(tasks, now, user.zone),
               slot |-> None, created |-> None]]
    /\ UNCHANGED <<now, user, tasks, calendar, nreq, nfault, last,
                   finderVars, walkerVars, priorityVars>>

\* route.ts lines 203-222: the slot search, against the calendar as it is now
\* and the tasks as they were loaded.
RaceSearch(c) ==
    /\ inflight[c].pc = "loaded"
    /\ inflight' = [inflight EXCEPT ![c] =
          [@ EXCEPT !.pc = "searched",
                    !.slot = findOptimalSlot(SlotSearch(now, user.zone, calendar,
                                 PostEstimate(Val(inflight[c].input)),
                                 PostPriority(Val(inflight[c].input),
                                     [clock |-> now,
                                      existingTasks |-> inflight[c].existingTasks]),
                                 Val(inflight[c].input).energy,
                                 PostSearchTasks(inflight[c].existingTasks, <<>>),
                                 {}, <<>>))]]
    /\ UNCHANGED <<now, user, tasks, calendar, nreq, nfault, last,
                   finderVars, walkerVars, priorityVars>>

\* What the writes of a request leave behind; stored is the state PostInsert
\* returns.
RaceCommit(c, stored) ==
    /\ tasks' = stored.tasks
    /\ calendar' = stored.calendar
    /\ inflight' = [inflight EXCEPT ![c] =
          [@ EXCEPT !.pc = "done", !.created = Some(Len(stored.tasks))]]

\* route.ts lines 224-277: createEvent, which may fail, and the insert of the row.
RaceStore(c) ==
    /\ inflight[c].pc = "searched"
    /\ \E fault \in {NoFault, [kind |-> "calendar_write", at |-> 1]} :
          /\ FaultStep(fault)
          /\ RaceCommit(c,
                PostInsert([tasks |-> tasks, calendar |-> calendar, plannedTasks |-> <<>>,
                            createdTasks |-> <<>>, notifications |-> <<>>, status |-> 0],
                           Val(inflight[c].input), 1,
                           [clock |-> now, zone |-> user.zone, linked |-> TRUE,
                            fault |-> fault,
                            existingTasks |-> inflight[c].existingTasks],
                           PostPriority(Val(inflight[c].input),
                               [clock |-> now,
                                existingTasks |-> inflight[c].existingTasks]),
                           inflight[c].slot))
    /\ nreq' = nreq + 1
    /\ UNCHANGED <<now, user, last, finderVars, walkerVars, priorityVars>>

RaceNext == \E c \in Clients : RaceLoad(c) \/ RaceSearch(c) \/ RaceStore(c)

SpecRace == RaceInit /\ [][RaceNext]_vars

(***************************************************************************)
(* Properties of the service.                                              *)
(***************************************************************************)
HasWindow(t) == IsSome(t.scheduled_start) /\ IsSome(t.scheduled_end)
WindowOf(t) == [start |-> Val(t.scheduled_start), end |-> Val(t.scheduled_end)]
Padded(w, bufferMinutes) == [start |-> w.start - bufferMinutes, end |-> w.end + bufferMinutes]

\* The pairs of results of one cascade invocation that belong to different
\* tasks for which the walker found a slot.
FoundPairs(record) ==
    { p \in (1..Len(record.results)) \X (1..Len(record.results)) :
        /\ p[1] # p[2]
        /\ record.results[p[1]].taskId # record.results[p[2]].taskId
        /\ IsSome(record.results[p[1]].slot)
        /\ IsSome(record.results[p[2]].slot) }

\* C3: within one invocation of the cascade, the windows chosen for two
\* different tasks for which the walker found a slot do not overlap and are
\* at least the buffer apart: neither meets the other padded by the buffer.
C3_CascadeWindowsApart ==
    last.op = "PATCH" =>
        \A k \in 1..Len(last.cascades) :
            \A p \in FoundPairs(last.cascades[k]) :
                ~Overlaps(Val(last.cascades[k].results[p[1]].slot),
                          Padded(Val(last.cascades[k].results[p[2]].slot),
                                 DefaultBufferMinutes))

\* C3 witness: a cascade that found slots for two different tasks and moved
\* one of them.
C3_Witness ==
    /\ last.op = "PATCH"
    /\ \E k \in 1..Len(last.cascades) :
          \E p \in FoundPairs(last.cascades[k]) :
             Some(Val(last.cascades[k].results[p[1]].slot).start)
                 # last.cascades[k].results[p[1]].previousStart

CreatedRows == { tasks[last.created[i]] : i \in 1..Len(last.created) }
LoadedRows == { tasks[id] : id \in last.loaded }

\* C4: no two tasks created by one POST have windows that overlap, the
\* buffer included, and no created task's window overlaps the window of a
\* scheduled task that was loaded for the request.
C4_BatchWindowsApart ==
    last.op = "POST" =>
        /\ \A a \in CreatedRows, b \in CreatedRows :
              (a.id # b.id /\ HasWindow(a) /\ HasWindow(b))
                  => ~Overlaps(WindowOf(a), Padded(WindowOf(b), DefaultBufferMinutes))
        /\ \A a \in CreatedRows, e \in LoadedRows :
              (HasWindow(a) /\ HasWindow(e)) => ~Overlaps(WindowOf(a), WindowOf(e))

\* C4 witness: a POST that created two scheduled tasks while a scheduled
\* task with a window was loaded.
C4_Witness ==
    /\ last.op = "POST"
    /\ \E a \in CreatedRows, b \in CreatedRows : a.id # b.id /\ HasWindow(a) /\ HasWindow(b)
    /\ \E e \in LoadedRows : HasWindow(e)

\* C5: every persisted task has scheduled_start and scheduled_end both absent
\* or both set, and when set start < end and end - start is the estimated
\* duration in minutes.
C5_WindowMatchesEstimate ==
    \A i \in 1..Len(tasks) :
        \/ ~IsSome(tasks[i].scheduled_start) /\ ~IsSome(tasks[i].scheduled_end)
        \/ /\ HasWindow(tasks[i])
           /\ Val(tasks[i].scheduled_start) < Val(tasks[i].scheduled_end)
           /\ Val(tasks[i].scheduled_end) - Val(tasks[i].scheduled_start)
                = tasks[i].estimated_duration_minutes

\* C13: every persisted task has a priority that is an integer in 1..5,
\* whatever assessPriority answered at creation and whatever priority a
\* PATCH carried.
C13_PersistedPriorityInRange ==
    \A i \in 1..Len(tasks) : tasks[i].status # "deleted" => tasks[i].priority \in 1..5

\* Witness of C13: a task stored with the priority assessPriority gave, and
\* a PATCH carrying priority 0 that was answered 500.
C13_Witness ==
    /\ \E i \in 1..Len(tasks) : tasks[i].priority = 4 /\ ~IsSome(tasks[i].deadline)
    /\ last.op = "PATCH" /\ last.body.priority = Some(0) /\ last.status = 500

\* The slot the walker has for a task among the other tasks of the table when
\* the calendar holds nothing.
SlotWithoutCalendar(t) ==
    findOptimalSlot(SlotSearch(now, user.zone, {}, t.estimated_duration_minutes,
                               t.priority, t.energy_requirement,
                               SelectSeq(tasks, LAMBDA o : o.id # t.id), {}, <<>>))

\* C14: for a user without a linked calendar, a created task is persisted with
\* a window whenever the walker has a free slot for it, and with no event id.
C14_UnlinkedStillScheduled ==
    (last.op = "POST" /\ ~user.linked) =>
        \A t \in CreatedRows :
            /\ ~IsSome(t.google_calendar_event_id)
            /\ IsSome(SlotWithoutCalendar(t)) => HasWindow(t)

\* The request met a failing calendar write.
CalendarWriteFailed == last.op # "none" /\ last.fault.kind = "calendar_write"

\* The results of the cascades of the last PATCH whose updateEvent failed.
FailedUpdateResults ==
    { r \in UNION { { last.cascades[k].results[i] :
                        i \in { j \in 1..Len(last.cascades[k].results) : j = last.fault.at } } :
                    k \in 1..Len(last.cascades) } : IsSome(r.slot) }

\* C15: a failing calendar write never aborts the operation: the request is
\* answered as it is when the write succeeds.  When createEvent fails the task
\* is persisted with the chosen window and no event id; when updateEvent fails
\* in a cascade the task's window is updated and the change recorded; when
\* deleteEvent fails on completion or deletion the update or the deletion
\* succeeds.
C15_CalendarWriteFailureTolerated ==
    CalendarWriteFailed =>
        /\ last.status = last.clean
        /\ (last.op = "POST" /\ last.status = 201) =>
              /\ Len(last.created) = last.asked
              /\ HasWindow(tasks[last.created[last.fault.at]])
              /\ ~IsSome(tasks[last.created[last.fault.at]].google_calendar_event_id)
        /\ last.op = "PATCH" =>
              /\ last.status = 200
              /\ last.body.status = Some("completed") => tasks[last.id].status = "completed"
              /\ \A r \in FailedUpdateResults :
                    /\ WindowOf(tasks[r.taskId]) = Val(r.slot)
                    /\ \E k \in 1..Len(last.cascades) :
                          \E i \in 1..Len(last.cascades[k].changes) :
                             last.cascades[k].changes[i] = r
        /\ last.op = "DELETE" =>
              last.status = 200 /\ tasks[last.id].status = "deleted"

\* Witness of C15: a deletion whose deleteEvent failed, leaving the event in
\* the calendar and the row gone.
C15_Witness ==
    /\ CalendarWriteFailed /\ last.op = "DELETE"
    /\ tasks[last.id].status = "deleted"
    /\ \E e \in calendar : Some(e.id) = tasks[last.id].google_calendar_event_id

\* C16: when the scheduling of one task of a cascade fails (no slot, or a
\* calendar read or write that raises an error), every other task of the
\* placement order is still processed.
C16_CascadeProcessesEveryTask ==
    last.op = "PATCH" =>
        \A k \in 1..Len(last.cascades) :
            \A i \in 1..Len(last.cascades[k].order) :
                \/ last.fault.kind = "calendar_read" /\ last.fault.at = i
                \/ \E j \in 1..Len(last.cascades[k].results) :
                      last.cascades[k].results[j].taskId = last.cascades[k].order[i]

\* The changes the cascades of the last PATCH recorded.
RecordedChanges ==
    UNION { { last.cascades[k].changes[i] : i \in 1..Len(last.cascades[k].changes) } :
            k \in { j \in 1..Len(last.cascades) : last.cascades[j].written } }

\* C17: a request during which a task write fails (the insert of POST, the
\* update of PATCH, the window update of a cascade) is answered as failed, and
\* no audit record describes a window that was not stored.
C17_PersistenceFailureFailsRequest ==
    (last.op # "none" /\ last.fault.kind = "db_write") =>
        /\ last.status = 500
        /\ last.op = "PATCH" =>
              \A r \in RecordedChanges :
                  HasWindow(tasks[r.taskId]) /\ WindowOf(tasks[r.taskId]) = Val(r.slot)

\* C18: the task that triggered a cascade is not among the tasks the cascade
\* processes, whatever the trigger: early completion, priority change or
\* deadline change.
C18_TriggerTaskNotReplaced ==
    last.op = "PATCH" =>
        \A k \in 1..Len(last.cascades) :
            \A i \in 1..Len(last.cascades[k].order) : last.cascades[k].order[i] # last.id

\* A task the spec lets a cascade at clock touch: scheduled, with a start at or
\* after clock and within the day of clock.
CascadeEligible(t, clock) ==
    /\ t.status = "scheduled"
    /\ IsSome(t.scheduled_start)
    /\ Val(t.scheduled_start) >= clock
    /\ Val(t.scheduled_start) >= getStartOfDayInTimeZone(clock, user.zone)
    /\ Val(t.scheduled_start) <= getEndOfDayInTimeZone(clock, user.zone)

EventsOf(t, cal) == { e \in cal : Some(e.id) = t.google_calendar_event_id }

\* C19: every task a cascade selects is scheduled with a start at or after now
\* and within the current day, and every other task (the patched one aside)
\* keeps its row and its calendar event through the request.
C19_CascadeSelectsOnlyTodaysFutureTasks ==
    [][(nreq' # nreq /\ last'.op = "PATCH") =>
          /\ \A k \in 1..Len(last'.cascades) :
                \A i \in 1..Len(last'.cascades[k].order) :
                    CascadeEligible(tasks[last'.cascades[k].order[i]], now)
          /\ \A i \in 1..Len(tasks) :
                (i # last'.id /\ ~CascadeEligible(tasks[i], now))
                    => /\ tasks'[i] = tasks[i]
                       /\ EventsOf(tasks[i], calendar') = EventsOf(tasks[i], calendar)]_vars

\* The results of a cascade whose new window differs from the previous one.
MovedResults(record) ==
    { r \in { record.results[i] : i \in 1..Len(record.results) } :
        /\ IsSome(r.slot)
        /\ \/ r.previousStart # Some(Val(r.slot).start)
           \/ r.previousEnd # Some(Val(r.slot).end) }

\* C20: a cascade writes its audit record and its notification if and only if
\* at least one task's window changed, and the record then has exactly one
\* entry per task whose new window differs from its previous one.
C20_AuditIffWindowChanged ==
    last.op = "PATCH" =>
        \A k \in 1..Len(last.cascades) :
            /\ last.cascades[k].written <=> MovedResults(last.cascades[k]) # {}
            /\ last.cascades[k].written =>
                  /\ { last.cascades[k].changes[i] : i \in 1..Len(last.cascades[k].changes) }
                        = MovedResults(last.cascades[k])
                  /\ Len(last.cascades[k].changes)
                        = Cardinality(MovedResults(last.cascades[k]))

\* The last PATCH ran a cascade of one of the given trigger types.
CascadeStarted(request, triggerTypes) ==
    \E k \in 1..Len(request.cascades) : request.cascades[k].triggerType \in triggerTypes

\* C21: for a linked user, a PATCH that marks a task with a scheduled start
\* completed runs the cascade exactly when estimated minutes minus the minutes
\* elapsed since the scheduled start is at least 5, and a PATCH that carries a
\* priority or a deadline always runs it.
C21_CascadeTriggers ==
    [][(nreq' # nreq /\ last'.op = "PATCH" /\ last'.status = 200 /\ user.linked) =>
          /\ (last'.body.status = Some("completed")
                 /\ IsSome(tasks[last'.id].scheduled_start)) =>
                (CascadeStarted(last', {"task_completed_early"})
                   <=> tasks[last'.id].estimated_duration_minutes
                         - (now - Val(tasks[last'.id].scheduled_start)) >= MinTimeSaved)
          /\ (IsSome(last'.body.priority) \/ IsSome(last'.body.deadline)) =>
                CascadeStarted(last', {"priority_changed", "deadline_changed"})]_vars

\* The rows a POST created before the i-th one, in creation order.
CreatedBefore(request, ts, i) == [j \in 1..(i - 1) |-> ts[request.created[j]]]

\* The slot the walker has for the i-th task a POST created: the search sees
\* the loaded tasks, the tasks the request created before it, and the calendar
\* with their events.
PostWalkerSlot(request, ts, cal, i) ==
    findOptimalSlot(SlotSearch(now, user.zone,
        calendar \cup { e \in cal : \E j \in 1..(i - 1) :
                            ts[request.created[j]].google_calendar_event_id = Some(e.id) },
        ts[request.created[i]].estimated_duration_minutes,
        ts[request.created[i]].priority,
        ts[request.created[i]].energy_requirement,
        PostSearchTasks(PostExistingTasks(tasks, now, user.zone),
                        CreatedBefore(request, ts, i)),
        {}, <<>>))

\* The notifications of a request that are about task id.
NotificationsFor(request, id) ==
    { k \in 1..Len(request.notifications) : request.notifications[k].related_task_id = id }

\* C22: when the walker has no slot for a task a linked user creates, the
\* request still answers 201 with every task created; that task is stored
\* with neither scheduled_start nor scheduled_end and no event id, no event is
\* added to the calendar for it, and exactly one notification, of type
\* conflict_detected, is recorded for it.
C22_NoSlotStillCreated ==
    [][(nreq' # nreq /\ last'.op = "POST" /\ user.linked
          /\ last'.fault.kind \in {"none", "calendar_write"}) =>
          /\ last'.status = 201 /\ Len(last'.created) = last'.asked
          /\ \A i \in 1..Len(last'.created) :
                ~IsSome(PostWalkerSlot(last', tasks', calendar', i)) =>
                   /\ ~IsSome(tasks'[last'.created[i]].scheduled_start)
                   /\ ~IsSome(tasks'[last'.created[i]].scheduled_end)
                   /\ ~IsSome(tasks'[last'.created[i]].google_calendar_event_id)
                   /\ \A e \in calendar' \ calendar :
                         \E j \in 1..Len(last'.created) :
                             /\ tasks'[last'.created[j]].google_calendar_event_id = Some(e.id)
                             /\ HasWindow(tasks'[last'.created[j]])
                   /\ \E k \in NotificationsFor(last', last'.created[i]) :
                         /\ NotificationsFor(last', last'.created[i]) = {k}
                         /\ last'.notifications[k].type = "conflict_detected"]_vars

\* Witness of C22: a POST of two tasks answered 201 whose second task found
\* no slot and was stored without a window, announced by conflict_detected.
C22_Witness ==
    /\ last.op = "POST" /\ last.status = 201 /\ user.linked /\ Len(last.created) = 2
    /\ HasWindow(tasks[last.created[1]])
    /\ ~IsSome(tasks[last.created[2]].scheduled_start)
    /\ ~IsSome(tasks[last.created[2]].scheduled_end)
    /\ \E k \in NotificationsFor(last, last.created[2]) :
          last.notifications[k].type = "conflict_detected"

\* The scheduled start a task had when the cascade began: the one its result
\* records, or the row's when the task was not processed.
StartBeforeCascade(record, id) ==
    IF \E i \in 1..Len(record.results) : record.results[i].taskId = id
    THEN record.results[CHOOSE i \in 1..Len(record.results) :
                            record.results[i].taskId = id].previousStart
    ELSE tasks[id].scheduled_start

\* Task a may stand before task b in the placement order.
MayPrecede(record, a, b) ==
    \/ tasks[a].priority > tasks[b].priority
    \/ /\ tasks[a].priority = tasks[b].priority
       /\ \/ IsSome(tasks[a].deadline) /\ ~IsSome(tasks[b].deadline)
          \/ /\ IsSome(tasks[a].deadline) /\ IsSome(tasks[b].deadline)
             /\ Val(tasks[a].deadline) < Val(tasks[b].deadline)
          \/ /\ tasks[a].deadline = tasks[b].deadline
             /\ (IsSome(StartBeforeCascade(record, a)) /\ IsSome(StartBeforeCascade(record, b)))
                   => Val(StartBeforeCascade(record, a)) <= Val(StartBeforeCascade(record, b))

\* C23: the placement order of a cascade is by priority descending, then by
\* deadline ascending with the tasks without a deadline last, then by current
\* scheduled start ascending; and the tasks are processed one after another in
\* that order.
C23_PlacementOrder ==
    last.op = "PATCH" =>
        \A k \in 1..Len(last.cascades) :
            /\ \A i \in 1..Len(last.cascades[k].order), j \in 1..Len(last.cascades[k].order) :
                   i < j => MayPrecede(last.cascades[k], last.cascades[k].order[i],
                                       last.cascades[k].order[j])
            /\ Len(last.cascades[k].results) <= Len(last.cascades[k].order)
            /\ \A i \in 1..Len(last.cascades[k].results) :
                   last.cascades[k].results[i].taskId = last.cascades[k].order[i]

\* Witness of C23: a cascade that processed two tasks of equal priority, the
\* one with a deadline first although the one without starts earlier.
C23_Witness ==
    /\ last.op = "PATCH"
    /\ \E k \in 1..Len(last.cascades) :
          /\ Len(last.cascades[k].results) >= 2
          /\ \E i \in 1..Len(last.cascades[k].order), j \in 1..Len(last.cascades[k].order) :
                /\ i < j
                /\ tasks[last.cascades[k].order[i]].priority
                     = tasks[last.cascades[k].order[j]].priority
                /\ IsSome(tasks[last.cascades[k].order[i]].deadline)
                /\ ~IsSome(tasks[last.cascades[k].order[j]].deadline)
                /\ IsSome(StartBeforeCascade(last.cascades[k], last.cascades[k].order[i]))
                /\ IsSome(StartBeforeCascade(last.cascades[k], last.cascades[k].order[j]))
                /\ Val(StartBeforeCascade(last.cascades[k], last.cascades[k].order[j]))
                     < Val(StartBeforeCascade(last.cascades[k], last.cascades[k].order[i]))

\* Result i of a cascade is of a task for which the walker found no slot.
FellBack(record, i) == ~IsSome(record.results[i].slot)

\* The window the task of result i had before the cascade is one of the busy
\* intervals the search for the task of result j was given.
PreviousWindowBusyFor(record, i, j) ==
    \E b \in 1..Len(record.results[j].busySlots) :
        /\ record.results[j].busySlots[b].start = Val(record.results[i].previousStart)
        /\ record.results[j].busySlots[b].end = Val(record.results[i].previousEnd)

\* C24: a task for which the walker finds no slot inside a cascade keeps its
\* persisted window and its calendar event as they were, gets no audit entry,
\* and its previous window is a busy interval for every task processed after
\* it in the same cascade.
C24_FallbackKeepsWindow ==
    [][(nreq' # nreq /\ last'.op = "PATCH") =>
          \A k \in 1..Len(last'.cascades) :
              \A i \in 1..Len(last'.cascades[k].results) :
                  FellBack(last'.cascades[k], i) =>
                      /\ tasks'[last'.cascades[k].results[i].taskId].scheduled_start
                           = tasks[last'.cascades[k].results[i].taskId].scheduled_start
                      /\ tasks'[last'.cascades[k].results[i].taskId].scheduled_end
                           = tasks[last'.cascades[k].results[i].taskId].scheduled_end
                      /\ tasks'[last'.cascades[k].results[i].taskId].google_calendar_event_id
                           = tasks[last'.cascades[k].results[i].taskId].google_calendar_event_id
                      /\ EventsOf(tasks[last'.cascades[k].results[i].taskId], calendar')
                           = EventsOf(tasks[last'.cascades[k].results[i].taskId], calendar)
                      /\ \A n \in 1..Len(last'.cascades[k].changes) :
                             last'.cascades[k].changes[n].taskId
                               # last'.cascades[k].results[i].taskId
                      /\ (IsSome(last'.cascades[k].results[i].previousStart)
                             /\ IsSome(last'.cascades[k].results[i].previousEnd)) =>
                            \A j \in (i + 1)..Len(last'.cascades[k].results) :
                                PreviousWindowBusyFor(last'.cascades[k], i, j)]_vars

\* Witness of C24: a cascade in which a task with a window fell back and a
\* task was processed after it.
C24_Witness ==
    /\ last.op = "PATCH"
    /\ \E k \in 1..Len(last.cascades) :
          \E i \in 1..Len(last.cascades[k].results) :
              /\ FellBack(last.cascades[k], i)
              /\ IsSome(last.cascades[k].results[i].previousStart)
              /\ IsSome(tasks[last.cascades[k].results[i].taskId].google_calendar_event_id)
              /\ i < Len(last.cascades[k].results)

\* The window the task of a cascade result ends the cascade with: the slot the
\* walker found, or else the window the task had before, if it had one.
FinalWindow(result) ==
    IF IsSome(result.slot) THEN result.slot
    ELSE IF IsSome(result.previousStart) /\ IsSome(result.previousEnd)
    THEN Some([start |-> Val(result.previousStart), end |-> Val(result.previousEnd)])
    ELSE None

\* C25: at the end of one cascade invocation the final windows of all the
\* tasks it processed, those that fell back to their previous window
\* included, are pairwise non-overlapping once padded by the buffer.
C25_FinalWindowsApart ==
    last.op = "PATCH" =>
        \A k \in 1..Len(last.cascades) :
            \A i \in 1..Len(last.cascades[k].results), j \in 1..Len(last.cascades[k].results) :
                (/\ i # j
                 /\ IsSome(FinalWindow(last.cascades[k].results[i]))
                 /\ IsSome(FinalWindow(last.cascades[k].results[j]))) =>
                    ~Overlaps(Val(FinalWindow(last.cascades[k].results[i])),
                              Padded(Val(FinalWindow(last.cascades[k].results[j])),
                                     DefaultBufferMinutes))

\* The ranges of an energy map that cover a local hour.
CoveringRanges(energyMap, hour) ==
    { i \in 1..Len(energyMap) : energyMap[i].startHour <= hour /\ hour < energyMap[i].endHour }

\* The energy level mapped to a local hour: that of the first range covering
\* it, medium when no range covers it.
MappedLevel(energyMap, hour) ==
    IF CoveringRanges(energyMap, hour) = {} THEN "medium"
    ELSE energyMap[CHOOSE i \in CoveringRanges(energyMap, hour) :
                       \A j \in CoveringRanges(energyMap, hour) : i <= j].level

LocalStartHour(a, slot) == ((slot.start + a.timeZone) % MinutesPerDay) \div MinutesPerHour

\* The slot starts or ends less than the buffer away from the end or the
\* start of an existing task that has a window.
AdjacentWithinBuffer(a, slot) ==
    \E i \in 1..Len(a.existingTasks) :
        /\ HasWindow(a.existingTasks[i])
        /\ \/ Abs(slot.start - Val(a.existingTasks[i].scheduled_end)) < a.bufferMinutes
           \/ Abs(slot.end - Val(a.existingTasks[i].scheduled_start)) < a.bufferMinutes

\* The four terms of the score, in sixtieths of a point.
EnergyTerm(a, slot) ==
    IF MappedLevel(a.energyMap, LocalStartHour(a, slot)) = a.energyRequirement THEN 600
    ELSE IF MappedLevel(a.energyMap, LocalStartHour(a, slot)) = "high"
            /\ a.energyRequirement = "medium" THEN 300
    ELSE 0
MorningTerm(a, slot) == IF a.priority >= 4 /\ LocalStartHour(a, slot) < 12 THEN 300 ELSE 0
AdjacencyTerm(a, slot) == IF AdjacentWithinBuffer(a, slot) THEN 180 ELSE 0
UrgencyTerm(a, slot) == IF a.priority >= 4 THEN Max(0, 600 - (slot.start - a.now)) ELSE 0

LocalDay(a) == (a.now + a.timeZone) \div MinutesPerDay
WorkStartToday(a) == LocalDay(a) * MinutesPerDay + a.workingHours.start * MinutesPerHour - a.timeZone
WorkEndToday(a) == LocalDay(a) * MinutesPerDay + a.workingHours.end * MinutesPerHour - a.timeZone
ExtensionEndToday(a) == WorkEndToday(a) + a.workingHours.maxExtension * MinutesPerHour

\* C27: no slot findOptimalSlot returns starts before the instant of the
\* call; when now is past the working-hours start a slot of day 0 starts at
\* or after now + buffer; and when now + buffer is not before the
\* working-hours end, day 0 is skipped with its extension window.
C27_NoSlotInThePast ==
    /\ (wArgs.now > WorkStartToday(wArgs)
          /\ wArgs.now + wArgs.bufferMinutes >= WorkEndToday(wArgs)) =>
            /\ wExamined <= (IF WalkerDone /\ IsSome(wResult) THEN wDay ELSE Max(0, wDay - 1))
            /\ (WalkerDone /\ IsSome(wResult)) =>
                  (wDay >= 1 /\ WalkerSlot.start >= ExtensionEndToday(wArgs))
    /\ (WalkerDone /\ IsSome(wResult)) =>
          /\ WalkerSlot.start >= wArgs.now
          /\ wArgs.now > WorkStartToday(wArgs) =>
                WalkerSlot.start >= wArgs.now + wArgs.bufferMinutes

\* Witness of C27: a call made after the working-hours start that returned
\* the slot starting exactly at now + buffer.
C27_Witness ==
    /\ WalkerDone /\ IsSome(wResult) /\ wDay = 0
    /\ wArgs.now > WorkStartToday(wArgs)
    /\ wArgs.bufferMinutes = DefaultBufferMinutes
    /\ WalkerSlot.start = wArgs.now + wArgs.bufferMinutes

\* A call made when now + buffer is past the working-hours end but inside the
\* extension window returned a slot of a later day.
C27_SkippedToday ==
    /\ WalkerDone /\ IsSome(wResult) /\ wDay >= 1
    /\ wArgs.now + wArgs.bufferMinutes >= WorkEndToday(wArgs)
    /\ wArgs.now < ExtensionEndToday(wArgs)

\* The candidate is at least the buffer away from the end and from the start
\* of every existing task that has a window.
ClearOfExistingTasks(a, slot) ==
    \A i \in 1..Len(a.existingTasks) :
        HasWindow(a.existingTasks[i]) =>
            /\ Abs(slot.start - Val(a.existingTasks[i].scheduled_end)) >= a.bufferMinutes
            /\ Abs(slot.end - Val(a.existingTasks[i].scheduled_start)) >= a.bufferMinutes

\* C29: every candidate findOptimalSlot scores is at least bufferMinutes away
\* from the start and from the end of every task in existingTasks, the
\* adjacency test is false for every candidate, and the slot chosen is the
\* one chosen without the adjacency term.
C29_AdjacencyNeverTrue ==
    (WalkerDone /\ IsSome(wResult)) =>
        /\ \A i \in 1..Len(availableSlots(wArgs, wDay)) :
              /\ ClearOfExistingTasks(wArgs, availableSlots(wArgs, wDay)[i])
              /\ ~isAdjacentToExistingTask(availableSlots(wArgs, wDay)[i],
                                           wArgs.existingTasks, wArgs.bufferMinutes)
        /\ WalkerSlot = BestSlot([wArgs EXCEPT !.existingTasks = <<>>],
                                 availableSlots(wArgs, wDay))

\* The tasks of the user that are scheduled with a window and are not part
\* of the cascade.
ScheduledOutside(record) ==
    { id \in 1..Len(tasks) :
        /\ tasks[id].status = "scheduled"
        /\ HasWindow(tasks[id])
        /\ \A n \in 1..Len(record.order) : record.order[n] # id }

\* C30: a window a cascade chose for a task never overlaps the window of
\* another task of the user that is scheduled and not part of the cascade,
\* whether or not that task has a calendar event.
C30_ClearOfTasksOutside ==
    last.op = "PATCH" =>
        \A k \in 1..Len(last.cascades) :
            \A i \in 1..Len(last.cascades[k].results) :
                IsSome(last.cascades[k].results[i].slot) =>
                    \A id \in ScheduledOutside(last.cascades[k]) :
                        ~Overlaps(Val(last.cascades[k].results[i].slot), WindowOf(tasks[id]))

\* The requests that have finished and stored a task with a window.
Placed == { c \in Clients : /\ inflight[c].pc = "done"
                            /\ HasWindow(tasks[Val(inflight[c].created)]) }

\* Request b loaded the existing tasks after request a had inserted its row.
RanAfter(a, b) == Val(inflight[a].created) <= inflight[b].rowsAtLoad

\* C28: the handler takes no lock; the task of a create request that loaded
\* the existing tasks after an earlier create request had stored its task
\* never overlaps that task, whether or not the earlier task has a calendar
\* event, while two requests that both load before either stores can be given
\* the same slot.
C28_SerialCreatesApart ==
    \A a \in Placed, b \in Placed :
        RanAfter(a, b) =>
            ~Overlaps(WindowOf(tasks[Val(inflight[a].created)]),
                      WindowOf(tasks[Val(inflight[b].created)]))

\* Witness of C28: with no call failing, two requests that interleaved were
\* given the same window, and a third that ran after both got a window clear
\* of theirs.
C28_Witness ==
    \E a \in Placed, b \in Placed, c \in Placed :
        /\ a # b
        /\ ~RanAfter(a, b) /\ ~RanAfter(b, a)
        /\ WindowOf(tasks[Val(inflight[a].created)]) = WindowOf(tasks[Val(inflight[b].created)])
        /\ RanAfter(a, c) /\ RanAfter(b, c)
        /\ nfault = 0

====
